---- MODULE Spec2Model ----
(***************************************************************************)
(* A model of network_switcher: the configuration store and its match      *)
(* engine (src/src/config/mod.rs), the network probe and the applier       *)
(* (src/src/network/mod.rs) and the controller that the GUI frame drives   *)
(* (src/src/gui/mod.rs).                                                    *)
(***************************************************************************)
EXTENDS Integers, Sequences, FiniteSets, TLC

(***************************************************************************)
(* Option<T>                                                                *)
(***************************************************************************)
None == [some |-> FALSE]

Some(x) == [some |-> TRUE, val |-> x]

(***************************************************************************)
(* Bounds of the model and the value universes the inputs are drawn from.  *)
(***************************************************************************)
\* Largest number of configs the store holds in the match-engine runs.
MaxConfigs == 2

\* The number of refresh threads from which on no further frame is drawn
\* (the code itself never has a second one in flight; the bound only stops
\* a run in which the is_refreshing guard is broken).
MaxWorkers == 2

Names == {"A", "B", "C"}

ConfigSsids == {"", "Home"}

ProbedSsids == {"Home", "Office"}

(***************************************************************************)
(* String helpers                                                           *)
(***************************************************************************)
\* A Rust string the program reads character by character is the sequence
\* of its characters, each the number of its Unicode scalar value.  Str
\* writes such a string from printable ASCII text (U+0060 cannot be written
\* in a TLA+ string, so the text is in two parts, before and after it).
AsciiBelow96 ==
    " !\"#$%&'()*+,-./0123456789:;<=>?@ABCDEFGHIJKLMNOPQRSTUVWXYZ[\\]^_"

AsciiAbove96 == "abcdefghijklmnopqrstuvwxyz{|}~"

PlaceIn(text, c) == CHOOSE i \in 1..Len(text) : SubSeq(text, i, i) = c

CodeOf(c) ==
    IF \E i \in 1..Len(AsciiAbove96) : SubSeq(AsciiAbove96, i, i) = c
    THEN 96 + PlaceIn(AsciiAbove96, c)
    ELSE 31 + PlaceIn(AsciiBelow96, c)

\* The characters of text from place i on.
RECURSIVE StrFrom(_, _)
StrFrom(text, i) ==
    IF i > Len(text) THEN <<>>
    ELSE <<CodeOf(SubSeq(text, i, i))>> \o StrFrom(text, i + 1)

Str(text) == StrFrom(text, 1)

\* The tables of char::to_lowercase and of the properties Cased and
\* Case_Ignorable are those of the std of rustc 1.95 (Unicode 17.0).
\*
\* The lower-case mappings of one character to one other character, as runs
\* <<first, last, step, offset>>: every step-th character from first to
\* last maps to the character offset places after it.
LowerRuns ==
    { <<65, 90, 1, 32>>, <<192, 214, 1, 32>>, <<216, 222, 1, 32>>,
      <<256, 302, 2, 1>>, <<306, 310, 2, 1>>, <<313, 327, 2, 1>>,
      <<330, 374, 2, 1>>, <<376, 376, 1, -121>>, <<377, 381, 2, 1>>,
      <<385, 385, 1, 210>>, <<386, 388, 2, 1>>, <<390, 390, 1, 206>>,
      <<391, 391, 1, 1>>, <<393, 394, 1, 205>>, <<395, 395, 1, 1>>,
      <<398, 398, 1, 79>>, <<399, 399, 1, 202>>, <<400, 400, 1, 203>>,
      <<401, 401, 1, 1>>, <<403, 403, 1, 205>>, <<404, 404, 1, 207>>,
      <<406, 406, 1, 211>>, <<407, 407, 1, 209>>, <<408, 408, 1, 1>>,
      <<412, 412, 1, 211>>, <<413, 413, 1, 213>>, <<415, 415, 1, 214>>,
      <<416, 420, 2, 1>>, <<422, 422, 1, 218>>, <<423, 423, 1, 1>>,
      <<425, 425, 1, 218>>, <<428, 428, 1, 1>>, <<430, 430, 1, 218>>,
      <<431, 431, 1, 1>>, <<433, 434, 1, 217>>, <<435, 437, 2, 1>>,
      <<439, 439, 1, 219>>, <<440, 440, 1, 1>>, <<444, 444, 1, 1>>,
      <<452, 452, 1, 2>>, <<453, 453, 1, 1>>, <<455, 455, 1, 2>>,
      <<456, 456, 1, 1>>, <<458, 458, 1, 2>>, <<459, 475, 2, 1>>,
      <<478, 494, 2, 1>>, <<497, 497, 1, 2>>, <<498, 500, 2, 1>>,
      <<502, 502, 1, -97>>, <<503, 503, 1, -56>>, <<504, 542, 2, 1>>,
      <<544, 544, 1, -130>>, <<546, 562, 2, 1>>, <<570, 570, 1, 10795>>,
      <<571, 571, 1, 1>>, <<573, 573, 1, -163>>, <<574, 574, 1, 10792>>,
      <<577, 577, 1, 1>>, <<579, 579, 1, -195>>, <<580, 580, 1, 69>>,
      <<581, 581, 1, 71>>, <<582, 590, 2, 1>>, <<880, 882, 2, 1>>,
      <<886, 886, 1, 1>>, <<895, 895, 1, 116>>, <<902, 902, 1, 38>>,
      <<904, 906, 1, 37>>, <<908, 908, 1, 64>>, <<910, 911, 1, 63>>,
      <<913, 929, 1, 32>>, <<931, 939, 1, 32>>, <<975, 975, 1, 8>>,
      <<984, 1006, 2, 1>>, <<1012, 1012, 1, -60>>, <<1015, 1015, 1, 1>>,
      <<1017, 1017, 1, -7>>, <<1018, 1018, 1, 1>>, <<1021, 1023, 1, -130>>,
      <<1024, 1039, 1, 80>>, <<1040, 1071, 1, 32>>, <<1120, 1152, 2, 1>>,
      <<1162, 1214, 2, 1>>, <<1216, 1216, 1, 15>>, <<1217, 1229, 2, 1>>,
      <<1232, 1326, 2, 1>>, <<1329, 1366, 1, 48>>, <<4256, 4293, 1, 7264>>,
      <<4295, 4295, 1, 7264>>, <<4301, 4301, 1, 7264>>, <<5024, 5103, 1, 38864>>,
      <<5104, 5109, 1, 8>>, <<7305, 7305, 1, 1>>, <<7312, 7354, 1, -3008>>,
      <<7357, 7359, 1, -3008>>, <<7680, 7828, 2, 1>>, <<7838, 7838, 1, -7615>>,
      <<7840, 7934, 2, 1>>, <<7944, 7951, 1, -8>>, <<7960, 7965, 1, -8>>,
      <<7976, 7983, 1, -8>>, <<7992, 7999, 1, -8>>, <<8008, 8013, 1, -8>>,
      <<8025, 8031, 2, -8>>, <<8040, 8047, 1, -8>>, <<8072, 8079, 1, -8>>,
      <<8088, 8095, 1, -8>>, <<8104, 8111, 1, -8>>, <<8120, 8121, 1, -8>>,
      <<8122, 8123, 1, -74>>, <<8124, 8124, 1, -9>>, <<8136, 8139, 1, -86>>,
      <<8140, 8140, 1, -9>>, <<8152, 8153, 1, -8>>, <<8154, 8155, 1, -100>>,
      <<8168, 8169, 1, -8>>, <<8170, 8171, 1, -112>>, <<8172, 8172, 1, -7>>,
      <<8184, 8185, 1, -128>>, <<8186, 8187, 1, -126>>, <<8188, 8188, 1, -9>>,
      <<8486, 8486, 1, -7517>>, <<8490, 8490, 1, -8383>>, <<8491, 8491, 1, -8262>>,
      <<8498, 8498, 1, 28>>, <<8544, 8559, 1, 16>>, <<8579, 8579, 1, 1>>,
      <<9398, 9423, 1, 26>>, <<11264, 11311, 1, 48>>, <<11360, 11360, 1, 1>>,
      <<11362, 11362, 1, -10743>>, <<11363, 11363, 1, -3814>>, <<11364, 11364, 1, -10727>>,
      <<11367, 11371, 2, 1>>, <<11373, 11373, 1, -10780>>, <<11374, 11374, 1, -10749>>,
      <<11375, 11375, 1, -10783>>, <<11376, 11376, 1, -10782>>, <<11378, 11378, 1, 1>>,
      <<11381, 11381, 1, 1>>, <<11390, 11391, 1, -10815>>, <<11392, 11490, 2, 1>>,
      <<11499, 11501, 2, 1>>, <<11506, 11506, 1, 1>>, <<42560, 42604, 2, 1>>,
      <<42624, 42650, 2, 1>>, <<42786, 42798, 2, 1>>, <<42802, 42862, 2, 1>>,
      <<42873, 42875, 2, 1>>, <<42877, 42877, 1, -35332>>, <<42878, 42886, 2, 1>>,
      <<42891, 42891, 1, 1>>, <<42893, 42893, 1, -42280>>, <<42896, 42898, 2, 1>>,
      <<42902, 42920, 2, 1>>, <<42922, 42922, 1, -42308>>, <<42923, 42923, 1, -42319>>,
      <<42924, 42924, 1, -42315>>, <<42925, 42925, 1, -42305>>, <<42926, 42926, 1, -42308>>,
      <<42928, 42928, 1, -42258>>, <<42929, 42929, 1, -42282>>, <<42930, 42930, 1, -42261>>,
      <<42931, 42931, 1, 928>>, <<42932, 42946, 2, 1>>, <<42948, 42948, 1, -48>>,
      <<42949, 42949, 1, -42307>>, <<42950, 42950, 1, -35384>>, <<42951, 42953, 2, 1>>,
      <<42955, 42955, 1, -42343>>, <<42956, 42970, 2, 1>>, <<42972, 42972, 1, -42561>>,
      <<42997, 42997, 1, 1>>, <<65313, 65338, 1, 32>>, <<66560, 66599, 1, 40>>,
      <<66736, 66771, 1, 40>>, <<66928, 66938, 1, 39>>, <<66940, 66954, 1, 39>>,
      <<66956, 66962, 1, 39>>, <<66964, 66965, 1, 39>>, <<68736, 68786, 1, 64>>,
      <<68944, 68965, 1, 32>>, <<71840, 71871, 1, 32>>, <<93760, 93791, 1, 32>>,
      <<93856, 93880, 1, 27>>, <<125184, 125217, 1, 34>> }

\* char::to_lowercase: the lower-case mapping of one character, which is
\* one character but for U+0130, mapped to "i" and the combining dot above.
LowerChar(c) ==
    IF c = 304 THEN <<105, 775>>
    ELSE IF \E r \in LowerRuns :
                r[1] <= c /\ c <= r[2] /\ (c - r[1]) % r[3] = 0
         THEN LET r == CHOOSE r \in LowerRuns :
                           r[1] <= c /\ c <= r[2] /\ (c - r[1]) % r[3] = 0
              IN  <<c + r[4]>>
    ELSE <<c>>

\* The characters with the Unicode property Cased, as ranges <<first, last>>.
CasedRanges ==
    { <<65, 90>>, <<97, 122>>, <<170, 170>>, <<181, 181>>,
      <<186, 186>>, <<192, 214>>, <<216, 246>>, <<248, 442>>,
      <<444, 447>>, <<452, 659>>, <<662, 696>>, <<704, 705>>,
      <<736, 740>>, <<837, 837>>, <<880, 883>>, <<886, 887>>,
      <<890, 893>>, <<895, 895>>, <<902, 902>>, <<904, 906>>,
      <<908, 908>>, <<910, 929>>, <<931, 1013>>, <<1015, 1153>>,
      <<1162, 1327>>, <<1329, 1366>>, <<1376, 1416>>, <<4256, 4293>>,
      <<4295, 4295>>, <<4301, 4301>>, <<4304, 4346>>, <<4348, 4351>>,
      <<5024, 5109>>, <<5112, 5117>>, <<7296, 7306>>, <<7312, 7354>>,
      <<7357, 7359>>, <<7424, 7615>>, <<7680, 7957>>, <<7960, 7965>>,
      <<7968, 8005>>, <<8008, 8013>>, <<8016, 8023>>, <<8025, 8025>>,
      <<8027, 8027>>, <<8029, 8029>>, <<8031, 8061>>, <<8064, 8116>>,
      <<8118, 8124>>, <<8126, 8126>>, <<8130, 8132>>, <<8134, 8140>>,
      <<8144, 8147>>, <<8150, 8155>>, <<8160, 8172>>, <<8178, 8180>>,
      <<8182, 8188>>, <<8305, 8305>>, <<8319, 8319>>, <<8336, 8348>>,
      <<8450, 8450>>, <<8455, 8455>>, <<8458, 8467>>, <<8469, 8469>>,
      <<8473, 8477>>, <<8484, 8484>>, <<8486, 8486>>, <<8488, 8488>>,
      <<8490, 8493>>, <<8495, 8500>>, <<8505, 8505>>, <<8508, 8511>>,
      <<8517, 8521>>, <<8526, 8526>>, <<8544, 8575>>, <<8579, 8580>>,
      <<9398, 9449>>, <<11264, 11492>>, <<11499, 11502>>, <<11506, 11507>>,
      <<11520, 11557>>, <<11559, 11559>>, <<11565, 11565>>, <<42560, 42605>>,
      <<42624, 42653>>, <<42786, 42887>>, <<42891, 42894>>, <<42896, 42972>>,
      <<42993, 42998>>, <<43000, 43002>>, <<43824, 43866>>, <<43868, 43881>>,
      <<43888, 43967>>, <<64256, 64262>>, <<64275, 64279>>, <<65313, 65338>>,
      <<65345, 65370>>, <<66560, 66639>>, <<66736, 66771>>, <<66776, 66811>>,
      <<66928, 66938>>, <<66940, 66954>>, <<66956, 66962>>, <<66964, 66965>>,
      <<66967, 66977>>, <<66979, 66993>>, <<66995, 67001>>, <<67003, 67004>>,
      <<67456, 67456>>, <<67459, 67461>>, <<67463, 67504>>, <<67506, 67514>>,
      <<68736, 68786>>, <<68800, 68850>>, <<68944, 68965>>, <<68976, 68997>>,
      <<71840, 71903>>, <<93760, 93823>>, <<93856, 93880>>, <<93883, 93907>>,
      <<119808, 119892>>, <<119894, 119964>>, <<119966, 119967>>, <<119970, 119970>>,
      <<119973, 119974>>, <<119977, 119980>>, <<119982, 119993>>, <<119995, 119995>>,
      <<119997, 120003>>, <<120005, 120069>>, <<120071, 120074>>, <<120077, 120084>>,
      <<120086, 120092>>, <<120094, 120121>>, <<120123, 120126>>, <<120128, 120132>>,
      <<120134, 120134>>, <<120138, 120144>>, <<120146, 120485>>, <<120488, 120512>>,
      <<120514, 120538>>, <<120540, 120570>>, <<120572, 120596>>, <<120598, 120628>>,
      <<120630, 120654>>, <<120656, 120686>>, <<120688, 120712>>, <<120714, 120744>>,
      <<120746, 120770>>, <<120772, 120779>>, <<122624, 122633>>, <<122635, 122654>>,
      <<122661, 122666>>, <<122928, 122989>>, <<125184, 125251>>, <<127280, 127305>>,
      <<127312, 127337>>, <<127344, 127369>> }

Cased(c) == \E r \in CasedRanges : r[1] <= c /\ c <= r[2]

\* The characters with the Unicode property Case_Ignorable, as ranges.
CaseIgnorableRanges ==
    { <<39, 39>>, <<46, 46>>, <<58, 58>>, <<94, 94>>,
      <<96, 96>>, <<168, 168>>, <<173, 173>>, <<175, 175>>,
      <<180, 180>>, <<183, 184>>, <<688, 879>>, <<884, 885>>,
      <<890, 890>>, <<900, 901>>, <<903, 903>>, <<1155, 1161>>,
      <<1369, 1369>>, <<1375, 1375>>, <<1425, 1469>>, <<1471, 1471>>,
      <<1473, 1474>>, <<1476, 1477>>, <<1479, 1479>>, <<1524, 1524>>,
      <<1536, 1541>>, <<1552, 1562>>, <<1564, 1564>>, <<1600, 1600>>,
      <<1611, 1631>>, <<1648, 1648>>, <<1750, 1757>>, <<1759, 1768>>,
      <<1770, 1773>>, <<1807, 1807>>, <<1809, 1809>>, <<1840, 1866>>,
      <<1958, 1968>>, <<2027, 2037>>, <<2042, 2042>>, <<2045, 2045>>,
      <<2070, 2093>>, <<2137, 2139>>, <<2184, 2184>>, <<2192, 2193>>,
      <<2199, 2207>>, <<2249, 2306>>, <<2362, 2362>>, <<2364, 2364>>,
      <<2369, 2376>>, <<2381, 2381>>, <<2385, 2391>>, <<2402, 2403>>,
      <<2417, 2417>>, <<2433, 2433>>, <<2492, 2492>>, <<2497, 2500>>,
      <<2509, 2509>>, <<2530, 2531>>, <<2558, 2558>>, <<2561, 2562>>,
      <<2620, 2620>>, <<2625, 2626>>, <<2631, 2632>>, <<2635, 2637>>,
      <<2641, 2641>>, <<2672, 2673>>, <<2677, 2677>>, <<2689, 2690>>,
      <<2748, 2748>>, <<2753, 2757>>, <<2759, 2760>>, <<2765, 2765>>,
      <<2786, 2787>>, <<2810, 2815>>, <<2817, 2817>>, <<2876, 2876>>,
      <<2879, 2879>>, <<2881, 2884>>, <<2893, 2893>>, <<2901, 2902>>,
      <<2914, 2915>>, <<2946, 2946>>, <<3008, 3008>>, <<3021, 3021>>,
      <<3072, 3072>>, <<3076, 3076>>, <<3132, 3132>>, <<3134, 3136>>,
      <<3142, 3144>>, <<3146, 3149>>, <<3157, 3158>>, <<3170, 3171>>,
      <<3201, 3201>>, <<3260, 3260>>, <<3263, 3263>>, <<3270, 3270>>,
      <<3276, 3277>>, <<3298, 3299>>, <<3328, 3329>>, <<3387, 3388>>,
      <<3393, 3396>>, <<3405, 3405>>, <<3426, 3427>>, <<3457, 3457>>,
      <<3530, 3530>>, <<3538, 3540>>, <<3542, 3542>>, <<3633, 3633>>,
      <<3636, 3642>>, <<3654, 3662>>, <<3761, 3761>>, <<3764, 3772>>,
      <<3782, 3782>>, <<3784, 3790>>, <<3864, 3865>>, <<3893, 3893>>,
      <<3895, 3895>>, <<3897, 3897>>, <<3953, 3966>>, <<3968, 3972>>,
      <<3974, 3975>>, <<3981, 3991>>, <<3993, 4028>>, <<4038, 4038>>,
      <<4141, 4144>>, <<4146, 4151>>, <<4153, 4154>>, <<4157, 4158>>,
      <<4184, 4185>>, <<4190, 4192>>, <<4209, 4212>>, <<4226, 4226>>,
      <<4229, 4230>>, <<4237, 4237>>, <<4253, 4253>>, <<4348, 4348>>,
      <<4957, 4959>>, <<5906, 5908>>, <<5938, 5939>>, <<5970, 5971>>,
      <<6002, 6003>>, <<6068, 6069>>, <<6071, 6077>>, <<6086, 6086>>,
      <<6089, 6099>>, <<6103, 6103>>, <<6109, 6109>>, <<6155, 6159>>,
      <<6211, 6211>>, <<6277, 6278>>, <<6313, 6313>>, <<6432, 6434>>,
      <<6439, 6440>>, <<6450, 6450>>, <<6457, 6459>>, <<6679, 6680>>,
      <<6683, 6683>>, <<6742, 6742>>, <<6744, 6750>>, <<6752, 6752>>,
      <<6754, 6754>>, <<6757, 6764>>, <<6771, 6780>>, <<6783, 6783>>,
      <<6823, 6823>>, <<6832, 6877>>, <<6880, 6891>>, <<6912, 6915>>,
      <<6964, 6964>>, <<6966, 6970>>, <<6972, 6972>>, <<6978, 6978>>,
      <<7019, 7027>>, <<7040, 7041>>, <<7074, 7077>>, <<7080, 7081>>,
      <<7083, 7085>>, <<7142, 7142>>, <<7144, 7145>>, <<7149, 7149>>,
      <<7151, 7153>>, <<7212, 7219>>, <<7222, 7223>>, <<7288, 7293>>,
      <<7376, 7378>>, <<7380, 7392>>, <<7394, 7400>>, <<7405, 7405>>,
      <<7412, 7412>>, <<7416, 7417>>, <<7468, 7530>>, <<7544, 7544>>,
      <<7579, 7679>>, <<8125, 8125>>, <<8127, 8129>>, <<8141, 8143>>,
      <<8157, 8159>>, <<8173, 8175>>, <<8189, 8190>>, <<8203, 8207>>,
      <<8216, 8217>>, <<8228, 8228>>, <<8231, 8231>>, <<8234, 8238>>,
      <<8288, 8292>>, <<8294, 8303>>, <<8305, 8305>>, <<8319, 8319>>,
      <<8336, 8348>>, <<8400, 8432>>, <<11388, 11389>>, <<11503, 11505>>,
      <<11631, 11631>>, <<11647, 11647>>, <<11744, 11775>>, <<11823, 11823>>,
      <<12293, 12293>>, <<12330, 12333>>, <<12337, 12341>>, <<12347, 12347>>,
      <<12441, 12446>>, <<12540, 12542>>, <<40981, 40981>>, <<42232, 42237>>,
      <<42508, 42508>>, <<42607, 42610>>, <<42612, 42621>>, <<42623, 42623>>,
      <<42652, 42655>>, <<42736, 42737>>, <<42752, 42785>>, <<42864, 42864>>,
      <<42888, 42890>>, <<42993, 42996>>, <<43000, 43001>>, <<43010, 43010>>,
      <<43014, 43014>>, <<43019, 43019>>, <<43045, 43046>>, <<43052, 43052>>,
      <<43204, 43205>>, <<43232, 43249>>, <<43263, 43263>>, <<43302, 43309>>,
      <<43335, 43345>>, <<43392, 43394>>, <<43443, 43443>>, <<43446, 43449>>,
      <<43452, 43453>>, <<43471, 43471>>, <<43493, 43494>>, <<43561, 43566>>,
      <<43569, 43570>>, <<43573, 43574>>, <<43587, 43587>>, <<43596, 43596>>,
      <<43632, 43632>>, <<43644, 43644>>, <<43696, 43696>>, <<43698, 43700>>,
      <<43703, 43704>>, <<43710, 43711>>, <<43713, 43713>>, <<43741, 43741>>,
      <<43756, 43757>>, <<43763, 43764>>, <<43766, 43766>>, <<43867, 43871>>,
      <<43881, 43883>>, <<44005, 44005>>, <<44008, 44008>>, <<44013, 44013>>,
      <<64286, 64286>>, <<64434, 64450>>, <<65024, 65039>>, <<65043, 65043>>,
      <<65056, 65071>>, <<65106, 65106>>, <<65109, 65109>>, <<65279, 65279>>,
      <<65287, 65287>>, <<65294, 65294>>, <<65306, 65306>>, <<65342, 65342>>,
      <<65344, 65344>>, <<65392, 65392>>, <<65438, 65439>>, <<65507, 65507>>,
      <<65529, 65531>>, <<66045, 66045>>, <<66272, 66272>>, <<66422, 66426>>,
      <<67456, 67461>>, <<67463, 67504>>, <<67506, 67514>>, <<68097, 68099>>,
      <<68101, 68102>>, <<68108, 68111>>, <<68152, 68154>>, <<68159, 68159>>,
      <<68325, 68326>>, <<68900, 68903>>, <<68942, 68942>>, <<68969, 68973>>,
      <<68975, 68975>>, <<69291, 69292>>, <<69317, 69317>>, <<69370, 69375>>,
      <<69446, 69456>>, <<69506, 69509>>, <<69633, 69633>>, <<69688, 69702>>,
      <<69744, 69744>>, <<69747, 69748>>, <<69759, 69761>>, <<69811, 69814>>,
      <<69817, 69818>>, <<69821, 69821>>, <<69826, 69826>>, <<69837, 69837>>,
      <<69888, 69890>>, <<69927, 69931>>, <<69933, 69940>>, <<70003, 70003>>,
      <<70016, 70017>>, <<70070, 70078>>, <<70089, 70092>>, <<70095, 70095>>,
      <<70191, 70193>>, <<70196, 70196>>, <<70198, 70199>>, <<70206, 70206>>,
      <<70209, 70209>>, <<70367, 70367>>, <<70371, 70378>>, <<70400, 70401>>,
      <<70459, 70460>>, <<70464, 70464>>, <<70502, 70508>>, <<70512, 70516>>,
      <<70587, 70592>>, <<70606, 70606>>, <<70608, 70608>>, <<70610, 70610>>,
      <<70625, 70626>>, <<70712, 70719>>, <<70722, 70724>>, <<70726, 70726>>,
      <<70750, 70750>>, <<70835, 70840>>, <<70842, 70842>>, <<70847, 70848>>,
      <<70850, 70851>>, <<71090, 71093>>, <<71100, 71101>>, <<71103, 71104>>,
      <<71132, 71133>>, <<71219, 71226>>, <<71229, 71229>>, <<71231, 71232>>,
      <<71339, 71339>>, <<71341, 71341>>, <<71344, 71349>>, <<71351, 71351>>,
      <<71453, 71453>>, <<71455, 71455>>, <<71458, 71461>>, <<71463, 71467>>,
      <<71727, 71735>>, <<71737, 71738>>, <<71995, 71996>>, <<71998, 71998>>,
      <<72003, 72003>>, <<72148, 72151>>, <<72154, 72155>>, <<72160, 72160>>,
      <<72193, 72202>>, <<72243, 72248>>, <<72251, 72254>>, <<72263, 72263>>,
      <<72273, 72278>>, <<72281, 72283>>, <<72330, 72342>>, <<72344, 72345>>,
      <<72544, 72544>>, <<72546, 72548>>, <<72550, 72550>>, <<72752, 72758>>,
      <<72760, 72765>>, <<72767, 72767>>, <<72850, 72871>>, <<72874, 72880>>,
      <<72882, 72883>>, <<72885, 72886>>, <<73009, 73014>>, <<73018, 73018>>,
      <<73020, 73021>>, <<73023, 73029>>, <<73031, 73031>>, <<73104, 73105>>,
      <<73109, 73109>>, <<73111, 73111>>, <<73177, 73177>>, <<73459, 73460>>,
      <<73472, 73473>>, <<73526, 73530>>, <<73536, 73536>>, <<73538, 73538>>,
      <<73562, 73562>>, <<78896, 78912>>, <<78919, 78933>>, <<90398, 90409>>,
      <<90413, 90415>>, <<92912, 92916>>, <<92976, 92982>>, <<92992, 92995>>,
      <<93504, 93506>>, <<93547, 93548>>, <<94031, 94031>>, <<94095, 94111>>,
      <<94176, 94177>>, <<94179, 94180>>, <<94194, 94195>>, <<110576, 110579>>,
      <<110581, 110587>>, <<110589, 110590>>, <<113821, 113822>>, <<113824, 113827>>,
      <<118528, 118573>>, <<118576, 118598>>, <<119143, 119145>>, <<119155, 119170>>,
      <<119173, 119179>>, <<119210, 119213>>, <<119362, 119364>>, <<121344, 121398>>,
      <<121403, 121452>>, <<121461, 121461>>, <<121476, 121476>>, <<121499, 121503>>,
      <<121505, 121519>>, <<122880, 122886>>, <<122888, 122904>>, <<122907, 122913>>,
      <<122915, 122916>>, <<122918, 122922>>, <<122928, 122989>>, <<123023, 123023>>,
      <<123184, 123197>>, <<123566, 123566>>, <<123628, 123631>>, <<124139, 124143>>,
      <<124398, 124399>>, <<124643, 124643>>, <<124646, 124646>>, <<124654, 124655>>,
      <<124661, 124661>>, <<124671, 124671>>, <<125136, 125142>>, <<125252, 125259>>,
      <<127995, 127999>>, <<917505, 917505>>, <<917536, 917631>>, <<917760, 917999>> }

Case_Ignorable(c) == \E r \in CaseIgnorableRanges : r[1] <= c /\ c <= r[2]

\* The first character of s that is not case-ignorable is a cased one.
RECURSIVE case_ignorable_then_cased(_)
case_ignorable_then_cased(s) ==
    IF Len(s) = 0 THEN FALSE
    ELSE IF Case_Ignorable(Head(s)) THEN case_ignorable_then_cased(Tail(s))
    ELSE Cased(Head(s))

RECURSIVE Reversed(_)
Reversed(s) ==
    IF Len(s) = 0 THEN s
    ELSE Reversed(Tail(s)) \o <<Head(s)>>

\* The capital sigma (U+03A3) at place i of from becomes the final sigma
\* (U+03C2) at the end of a word, and the medial sigma (U+03C3) elsewhere.
map_uppercase_sigma(from, i) ==
    IF /\ case_ignorable_then_cased(Reversed(SubSeq(from, 1, i - 1)))
       /\ ~case_ignorable_then_cased(SubSeq(from, i + 1, Len(from)))
    THEN 962
    ELSE 963

\* The lower-cased characters of from, from place i on.
RECURSIVE LowerFrom(_, _)
LowerFrom(from, i) ==
    IF i > Len(from) THEN <<>>
    ELSE (IF from[i] = 931
          THEN <<map_uppercase_sigma(from, i)>>
          ELSE LowerChar(from[i])) \o LowerFrom(from, i + 1)

\* str::to_lowercase
to_lowercase(s) == LowerFrom(s, 1)

\* char::is_whitespace: the characters with the Unicode property White_Space.
WhiteSpace ==
    (9..13) \cup {32, 133, 160, 5760} \cup (8192..8202)
        \cup {8232, 8233, 8239, 8287, 12288}

RECURSIVE trim_start(_)
trim_start(s) ==
    IF Len(s) = 0 THEN s
    ELSE IF Head(s) \in WhiteSpace THEN trim_start(Tail(s))
    ELSE s

RECURSIVE trim_end(_)
trim_end(s) ==
    IF Len(s) = 0 THEN s
    ELSE IF s[Len(s)] \in WhiteSpace
         THEN trim_end(SubSeq(s, 1, Len(s) - 1))
    ELSE s

\* str::trim: white space is dropped at both ends.
trim(s) == trim_end(trim_start(s))

\* Router MACs as a user can type them into the edit panel (any letter case).
ConfigMacs == {None, Some(Str("aa:bb")), Some(Str("AA:BB"))}

\* Router MACs handed to the match engine.
ProbedMacs ==
    {None, Some(Str("aa:bb")), Some(Str("AA:BB")), Some(Str("cc:dd"))}

Range(f) == {f[i] : i \in DOMAIN f}

\* All orders in which the keys S can be laid out.
Perms(S) == {p \in [1..Cardinality(S) -> S] : Range(p) = S}

MinOf(S) == CHOOSE i \in S : \A j \in S : i <= j

MaxOf(S) == CHOOSE i \in S : \A j \in S : j <= i

(***************************************************************************)
(* NetworkConfig (config/mod.rs)                                            *)
(***************************************************************************)
\* NetworkConfig::new: a blank config, DHCP on, auto_apply off.
NetworkConfig_new(name, ssid, target_service, config_type, router_mac) ==
    [name |-> name, ssid |-> ssid, config_type |-> config_type,
     router_mac |-> router_mac, auto_apply |-> FALSE,
     target_service |-> target_service, use_dhcp |-> TRUE,
     ip_address |-> None, subnet_mask |-> None, router |-> None,
     dns_servers |-> <<>>]

config_key(cfg) == cfg.name

\* char::len_utf8: the bytes a character takes in a Rust string.
len_utf8(c) ==
    IF c < 128 THEN 1 ELSE IF c < 2048 THEN 2 ELSE IF c < 65536 THEN 3 ELSE 4

\* str::len: the bytes of a string.
RECURSIVE str_len(_)
str_len(s) == IF s = <<>> THEN 0 ELSE len_utf8(Head(s)) + str_len(Tail(s))

\* str::is_char_boundary: byte index is where a character of s starts, or
\* the end of s.
is_char_boundary(s, index) ==
    \E n \in 0..Len(s) : str_len(SubSeq(s, 1, n)) = index

saturating_sub(a, b) == IF a >= b THEN a - b ELSE 0

\* &s[index..] for an index that is a char boundary of s.
slice_from(s, index) ==
    LET n == CHOOSE n \in 0..Len(s) : str_len(SubSeq(s, 1, n)) = index
    IN  SubSeq(s, n + 1, Len(s))

\* NetworkConfig::display_name panics: it slices the router MAC, when there
\* is one, 8 bytes from its end (from its start when it is shorter), and
\* the slice panics when that byte is inside a character.
display_name_panics(cfg) ==
    /\ cfg.router_mac.some
    /\ ~is_char_boundary(cfg.router_mac.val,
                         saturating_sub(str_len(cfg.router_mac.val), 8))

\* NetworkConfig::display_name: the text of a row of the config list, which
\* ends with the last 8 bytes of the router MAC when there is one.
display_name(cfg) ==
    LET icon == IF cfg.config_type = "Wifi" THEN <<128246>> ELSE <<128268>>
        auto_icon == IF cfg.auto_apply THEN <<128260>> ELSE <<>>
        head == auto_icon \o icon \o Str(" ") \o Str(cfg.name)
    IN  IF display_name_panics(cfg) THEN [panics |-> TRUE]
        ELSE IF cfg.router_mac.some
        THEN LET mac == cfg.router_mac.val
                 start == saturating_sub(str_len(mac), 8)
             IN  [panics |-> FALSE,
                  text |-> head \o Str(" [") \o Str(cfg.ssid)
                              \o Str("] (") \o slice_from(mac, start)
                              \o Str(")")]
        ELSE IF cfg.ssid # ""
        THEN [panics |-> FALSE,
              text |-> head \o Str(" [") \o Str(cfg.ssid) \o Str("]")]
        ELSE [panics |-> FALSE, text |-> head]

\* str::cmp is less: byte by byte, which in UTF-8 is character by character.
RECURSIVE str_lt(_, _)
str_lt(a, b) ==
    IF b = <<>> THEN FALSE
    ELSE IF a = <<>> THEN TRUE
    ELSE IF Head(a) # Head(b) THEN Head(a) < Head(b)
    ELSE str_lt(Tail(a), Tail(b))

\* Mutants of matches_network, each a plausible slip in one of its rules.
matches_network_fail_open(cfg, ssid, router_mac) ==
    IF cfg.ssid = "" THEN TRUE
    ELSE IF cfg.ssid # ssid THEN FALSE
    ELSE IF cfg.router_mac.some
         THEN IF router_mac.some THEN cfg.router_mac.val = router_mac.val
              ELSE TRUE
    ELSE TRUE

matches_network_no_wildcard(cfg, ssid, router_mac) ==
    IF cfg.ssid # ssid THEN FALSE
    ELSE IF cfg.router_mac.some
         THEN IF router_mac.some THEN cfg.router_mac.val = router_mac.val
              ELSE FALSE
    ELSE TRUE

matches_network_mac_required(cfg, ssid, router_mac) ==
    IF cfg.ssid = "" THEN TRUE
    ELSE IF cfg.ssid # ssid THEN FALSE
    ELSE IF cfg.router_mac.some
         THEN IF router_mac.some THEN cfg.router_mac.val = router_mac.val
              ELSE FALSE
    ELSE router_mac.some

\* NetworkConfig::matches_network
matches_network(cfg, ssid, router_mac) ==
    IF cfg.ssid = "" THEN TRUE
    ELSE IF cfg.ssid # ssid THEN FALSE
    ELSE IF cfg.router_mac.some
         THEN IF router_mac.some THEN cfg.router_mac.val = router_mac.val
              ELSE FALSE
    ELSE TRUE

(***************************************************************************)
(* AppConfig (config/mod.rs): configs is a HashMap keyed by config name.   *)
(* The map is a function on its key set; the order in which values()       *)
(* yields its entries is the layout of the hash table, kept beside it.     *)
(***************************************************************************)
AppConfig_default ==
    [configs |-> <<>>, auto_switch |-> FALSE, network_service |-> ""]

\* Mutant: an entry that exists is kept.
add_config_keep_existing(configs, cfg) ==
    [k \in (DOMAIN configs) \cup {config_key(cfg)} |->
        IF k \in DOMAIN configs THEN configs[k] ELSE cfg]

add_config(configs, cfg) ==
    [k \in (DOMAIN configs) \cup {config_key(cfg)} |->
        IF k = config_key(cfg) THEN cfg ELSE configs[k]]

remove_config(configs, key) ==
    [k \in (DOMAIN configs) \ {key} |-> configs[k]]

\* The layouts a HashMap can have after an insert or a remove: the iteration
\* order of a HashMap is arbitrary, so any order of the keys.
layouts_after_mutation(configs) == Perms(DOMAIN configs)

\* The orders in which one traversal of configs.values() can yield the
\* entries of a map with this layout: the layout itself, since a traversal
\* does not move entries.
values_orders(layout) == {layout}

values(configs, ord) == [i \in 1..Len(ord) |-> configs[ord[i]]]

\* Mutant: pass 1 forgets to look at auto_apply.
find_auto_apply_config_any(configs, ord, ssid, router_mac) ==
    LET vals == values(configs, ord)
        pass1 == {i \in 1..Len(vals) : matches_network(vals[i], ssid, router_mac)}
        pass2 == {i \in 1..Len(vals) :
                     /\ vals[i].auto_apply
                     /\ vals[i].ssid = ssid
                     /\ ~vals[i].router_mac.some}
    IN  IF pass1 # {} THEN Some(vals[MinOf(pass1)])
        ELSE IF pass2 # {} THEN Some(vals[MinOf(pass2)])
        ELSE None

\* Mutant: pass 2 falls back on the SSID alone, whatever MAC the config pins.
find_auto_apply_config_ssid_fallback(configs, ord, ssid, router_mac) ==
    LET vals == values(configs, ord)
        pass1 == {i \in 1..Len(vals) :
                     /\ vals[i].auto_apply
                     /\ matches_network(vals[i], ssid, router_mac)}
        pass2 == {i \in 1..Len(vals) :
                     /\ vals[i].auto_apply
                     /\ vals[i].ssid = ssid}
    IN  IF pass1 # {} THEN Some(vals[MinOf(pass1)])
        ELSE IF pass2 # {} THEN Some(vals[MinOf(pass2)])
        ELSE None

\* AppConfig::find_auto_apply_config, with the traversal order ord of
\* self.configs.values(): each loop returns the first entry that qualifies.
find_auto_apply_config(configs, ord, ssid, router_mac) ==
    LET vals == values(configs, ord)
        pass1 == {i \in 1..Len(vals) :
                     /\ vals[i].auto_apply
                     /\ matches_network(vals[i], ssid, router_mac)}
        pass2 == {i \in 1..Len(vals) :
                     /\ vals[i].auto_apply
                     /\ vals[i].ssid = ssid
                     /\ ~vals[i].router_mac.some}
    IN  IF pass1 # {} THEN Some(vals[MinOf(pass1)])
        ELSE IF pass2 # {} THEN Some(vals[MinOf(pass2)])
        ELSE None

(***************************************************************************)
(* The network probe (network/mod.rs).  What the operating system answers  *)
(* is an input: a world names the SSID the Wi-Fi probes find, the wired    *)
(* service get_ethernet_status finds, and the token arp prints between     *)
(* " at " and " on " for the default router.                               *)
(***************************************************************************)
Worlds ==
    { [wifi |-> None, eth |-> None, arp |-> None],
      [wifi |-> Some("Home"), eth |-> None, arp |-> Some(Str(" AA:BB "))],
      [wifi |-> Some("Home"), eth |-> None, arp |-> Some(Str("(incomplete)"))],
      [wifi |-> None, eth |-> Some("Ethernet"), arp |-> Some(Str("GG:HH"))] }

Incomplete == Str("(incomplete)")

\* get_router_mac: the arp token, trimmed and lower-cased; none when it is
\* missing, or when trimmed it is empty or "(incomplete)".
get_router_mac(w) ==
    IF ~w.arp.some THEN None
    ELSE LET mac == trim(w.arp.val)
         IN  IF mac # <<>> /\ mac # Incomplete
             THEN Some(to_lowercase(mac))
             ELSE None

NetworkIdentity_default ==
    [ssid |-> None, router_mac |-> None, is_wired |-> FALSE, service_name |-> None]

\* get_network_identity: Wi-Fi first, then wired, else the default identity.
get_network_identity(w) ==
    LET router_mac == get_router_mac(w)
    IN  IF w.wifi.some
        THEN [ssid |-> w.wifi, router_mac |-> router_mac,
              is_wired |-> FALSE, service_name |-> None]
        ELSE IF w.eth.some
        THEN [ssid |-> None, router_mac |-> router_mac,
              is_wired |-> TRUE, service_name |-> w.eth]
        ELSE NetworkIdentity_default

\* get_current_config(service): the live settings of a service.  The model
\* keeps which service was asked, not the addresses the system reports.
get_current_config(service) == [probed_service |-> service]

\* The label refresh_in_background gives a wired connection; "[wired] "
\* stands for the source's non-ASCII prefix.
WiredPrefix == "[wired] "

display_ssid(identity) ==
    IF identity.is_wired
    THEN IF identity.service_name.some
         THEN Some(WiredPrefix \o identity.service_name.val)
         ELSE None
    ELSE identity.ssid

(***************************************************************************)
(* The applier (network/mod.rs).  outcome names the run_command that       *)
(* fails, if any: "ok", "addr_fails" or "dns_fails".                       *)
(***************************************************************************)
ActuatorOutcomes == {"ok", "addr_fails", "dns_fails"}

unwrap_or(opt, dflt) == IF opt.some THEN opt.val ELSE dflt

\* run_command: Ok, or Err with what the command wrote to stderr (kept as
\* the arguments of the command that wrote it).
run_command(args, fails) ==
    IF fails THEN [ok |-> FALSE, err |-> Some(args)]
    ELSE [ok |-> TRUE, err |-> None]

\* Mutant: the configured static fields are used only when all three are
\* present.
addressing_args_all_or_nothing(service, cfg) ==
    IF cfg.use_dhcp
    THEN <<"-setdhcp", service>>
    ELSE IF cfg.ip_address.some /\ cfg.subnet_mask.some /\ cfg.router.some
    THEN <<"-setmanual", service, cfg.ip_address.val, cfg.subnet_mask.val,
           cfg.router.val>>
    ELSE <<"-setmanual", service, "192.168.1.100", "255.255.255.0",
           "192.168.1.1">>

\* The arguments of the addressing command and of the DNS command.
addressing_args(service, cfg) ==
    IF cfg.use_dhcp
    THEN <<"-setdhcp", service>>
    ELSE <<"-setmanual", service,
           unwrap_or(cfg.ip_address, "192.168.1.100"),
           unwrap_or(cfg.subnet_mask, "255.255.255.0"),
           unwrap_or(cfg.router, "192.168.1.1")>>

\* Mutant: only the first DNS server is passed on.
dns_args_first_only(service, cfg) ==
    IF cfg.dns_servers = <<>>
    THEN <<"-setdnsservers", service, "Empty">>
    ELSE <<"-setdnsservers", service, cfg.dns_servers[1]>>

dns_args(service, cfg) ==
    IF cfg.dns_servers = <<>>
    THEN <<"-setdnsservers", service, "Empty">>
    ELSE <<"-setdnsservers", service>> \o cfg.dns_servers

\* Mutant: the DNS servers are set before the addressing.
apply_config_dns_first(service, cfg, outcome) ==
    LET addr == addressing_args(service, cfg)
        dns  == dns_args(service, cfg)
        first  == run_command(dns, outcome = "dns_fails")
        second == run_command(addr, outcome = "addr_fails")
    IN  IF ~first.ok
        THEN [ok |-> FALSE, err |-> first.err, calls |-> <<dns>>]
        ELSE IF ~second.ok
        THEN [ok |-> FALSE, err |-> second.err, calls |-> <<dns, addr>>]
        ELSE [ok |-> TRUE, err |-> None, calls |-> <<dns, addr>>]

\* Mutant: the result of the addressing command is dropped.
apply_config_keeps_going(service, cfg, outcome) ==
    LET addr == addressing_args(service, cfg)
        dns  == dns_args(service, cfg)
        second == run_command(dns, outcome = "dns_fails")
    IN  IF ~second.ok
        THEN [ok |-> FALSE, err |-> second.err, calls |-> <<addr, dns>>]
        ELSE [ok |-> TRUE, err |-> None, calls |-> <<addr, dns>>]

\* apply_config: the networksetup calls issued, in order, and the result.
\* Each run_command is followed by ?, so the first Err is returned at once.
apply_config(service, cfg, outcome) ==
    LET addr == addressing_args(service, cfg)
        dns  == dns_args(service, cfg)
        first  == run_command(addr, outcome = "addr_fails")
        second == run_command(dns, outcome = "dns_fails")
    IN  IF ~first.ok
        THEN [ok |-> FALSE, err |-> first.err, calls |-> <<addr>>]
        ELSE IF ~second.ok
        THEN [ok |-> FALSE, err |-> second.err, calls |-> <<addr, dns>>]
        ELSE [ok |-> TRUE, err |-> None, calls |-> <<addr, dns>>]

(***************************************************************************)
(* State                                                                    *)
(***************************************************************************)
VARIABLES
    config,                 \* NetworkSwitcherApp.config: AppConfig
    layout,                 \* layout of the HashMap config.configs
    current_ssid,
    current_router_mac,
    current_network_config,
    network_services,
    selected_service_idx,   \* 0-based, as in the source
    status_message,
    check_due,              \* last_check.elapsed() >= 5 s
    last_applied_key,
    bg_state,               \* Arc<Mutex<NetworkState>>: the NetworkState
    mutex,                  \* Arc<Mutex<NetworkState>>: who holds the lock
    is_refreshing,
    is_authenticated,
    password_error,
    workers,                \* the refresh threads that have not finished
    panicked,               \* the process died of a panic
    frame,                  \* the call of network::apply_config inside which
                            \* update() is waiting, if it is
    applier_calls,          \* history: Applier invocations of the last step
    call                    \* history: the last call of the function under
                            \* study (match engine, decision, applier) or
                            \* what the last finished refresh thread probed

vars == <<config, layout, current_ssid, current_router_mac,
          current_network_config, network_services, selected_service_idx,
          status_message, check_due, last_applied_key, bg_state, mutex,
          is_refreshing, is_authenticated, password_error, workers, panicked,
          frame, applier_calls, call>>

app_vars == <<current_ssid, current_router_mac, current_network_config,
              network_services, selected_service_idx, status_message,
              check_due, last_applied_key, bg_state, mutex, is_refreshing,
              is_authenticated, password_error, workers, panicked, frame,
              applier_calls>>

NetworkState_default ==
    [ssid |-> None, router_mac |-> None, config |-> None, is_loading |-> FALSE]

NoCall == [fn |-> "none"]

\* The value of mutex when no thread holds the lock; otherwise mutex is
\* Some(t), t being 0 for the thread that draws the frames and i for the
\* refresh thread workers[i].
Unlocked == None

(***************************************************************************)
(* Init: the state NetworkSwitcherApp::default builds.  The configuration  *)
(* document is the default one; the service list is what networksetup      *)
(* reported, possibly nothing.                                              *)
(***************************************************************************)
ServiceLists == { <<>>, <<"Wi-Fi", "Ethernet">> }

\* services.iter().position(|s| s == &config.network_service).unwrap_or(0)
position_or_0(services, name) ==
    LET hits == {i \in 1..Len(services) : services[i] = name}
    IN  IF hits = {} THEN 0 ELSE MinOf(hits) - 1

\* NetworkSwitcherApp::default, given what AppConfig::load returned (the
\* document and the layout of its map) and what get_network_services did.
InitWith(document, lay, services) ==
    /\ config = document
    /\ layout = lay
    /\ network_services = services
    /\ selected_service_idx = position_or_0(services, document.network_service)
    /\ current_ssid = None
    /\ current_router_mac = None
    /\ current_network_config =
          IF services # <<>>
          THEN Some(get_current_config(
                   services[position_or_0(services, document.network_service) + 1]))
          ELSE None
    /\ status_message = <<>>
    /\ check_due = TRUE
    /\ last_applied_key = None
    /\ bg_state = NetworkState_default
    /\ mutex = Unlocked
    /\ is_refreshing = FALSE
    /\ is_authenticated = FALSE
    /\ password_error = FALSE
    /\ workers = <<>>
    /\ panicked = FALSE
    /\ frame = None
    /\ applier_calls = <<>>
    /\ call = NoCall

(***************************************************************************)
(* The match engine on its own: load returned some stored document, and    *)
(* matches_network and find_auto_apply_config are called on it with every  *)
(* probe result.                                                            *)
(***************************************************************************)
\* (ssid, router_mac, auto_apply) of the configs a document can hold.
MatchVariants ==
    ({ <<s, m, TRUE>> : s \in ConfigSsids, m \in ConfigMacs })
    \cup { <<"", None, FALSE>>, <<"Home", None, FALSE>>,
           <<"Home", Some(Str("aa:bb")), FALSE>> }

MatchConfig(name, v) ==
    [NetworkConfig_new(name, v[1], None, "Wifi", v[2]) EXCEPT !.auto_apply = v[3]]

MatchStores ==
    UNION { { [k \in D |-> MatchConfig(k, f[k])] : f \in [D -> MatchVariants] } :
              D \in {E \in SUBSET Names : Cardinality(E) <= MaxConfigs} }

MatchInit ==
    \E cfgs \in MatchStores :
       \E lay \in Perms(DOMAIN cfgs) :
          InitWith([AppConfig_default EXCEPT !.configs = cfgs], lay,
                   <<"Wi-Fi", "Ethernet">>)

CallMatches(key, ssid, router_mac) ==
    /\ key \in DOMAIN config.configs
    /\ call' = [fn |-> "matches", cfg |-> config.configs[key], ssid |-> ssid,
                router_mac |-> router_mac,
                result |-> matches_network(config.configs[key], ssid, router_mac)]
    /\ UNCHANGED <<config, layout>>
    /\ UNCHANGED app_vars

CallFind(ssid, router_mac) ==
    /\ \E ord \in values_orders(layout) :
          call' = [fn |-> "find", ssid |-> ssid, router_mac |-> router_mac,
                   result |-> find_auto_apply_config(config.configs, ord,
                                                     ssid, router_mac)]
    /\ UNCHANGED <<config, layout>>
    /\ UNCHANGED app_vars

MatchNext ==
    \/ \E key \in Names, ssid \in ProbedSsids, mac \in ProbedMacs :
          CallMatches(key, ssid, mac)
    \/ \E ssid \in ProbedSsids, mac \in ProbedMacs : CallFind(ssid, mac)

MatchSpec == MatchInit /\ [][MatchNext]_vars

(***************************************************************************)
(* The controller (gui/mod.rs).  The methods of NetworkSwitcherApp are     *)
(* operators on app, a record of the fields of self (with the shared       *)
(* bg_state and the threads spawned so far); an action runs update() on    *)
(* the current state, up to the point where the frame thread has to wait   *)
(* for the networksetup commands or to the end, and stores the result.     *)
(***************************************************************************)
Cur ==
    [config |-> config, layout |-> layout, current_ssid |-> current_ssid,
     current_router_mac |-> current_router_mac,
     current_network_config |-> current_network_config,
     network_services |-> network_services,
     selected_service_idx |-> selected_service_idx,
     status_message |-> status_message, check_due |-> check_due,
     last_applied_key |-> last_applied_key, bg_state |-> bg_state,
     mutex |-> mutex, is_refreshing |-> is_refreshing, is_authenticated |-> is_authenticated,
     password_error |-> password_error, workers |-> workers,
     panicked |-> panicked, frame |-> frame, applier_calls |-> <<>>]

Commit(app) ==
    /\ config' = app.config
    /\ layout' = app.layout
    /\ current_ssid' = app.current_ssid
    /\ current_router_mac' = app.current_router_mac
    /\ current_network_config' = app.current_network_config
    /\ network_services' = app.network_services
    /\ selected_service_idx' = app.selected_service_idx
    /\ status_message' = app.status_message
    /\ check_due' = app.check_due
    /\ last_applied_key' = app.last_applied_key
    /\ bg_state' = app.bg_state
    /\ mutex' = app.mutex
    /\ is_refreshing' = app.is_refreshing
    /\ is_authenticated' = app.is_authenticated
    /\ password_error' = app.password_error
    /\ workers' = app.workers
    /\ panicked' = app.panicked
    /\ frame' = app.frame
    /\ applier_calls' = app.applier_calls

\* Mutex::lock returns once no thread holds the lock.
can_lock(m) == m = Unlocked

\* The guard bg_state.lock() returns, and its drop at the end of its block.
mutex_lock(app, who) == [app EXCEPT !.mutex = Some(who)]

mutex_unlock(app) == [app EXCEPT !.mutex = Unlocked]

\* thread::spawn: one more refresh thread, probing for service, at the
\* first instruction of its body, its locals not yet bound.
spawn(threads, service) ==
    Append(threads, [service |-> service, pc |-> 1,
                     identity |-> NetworkIdentity_default, live |-> None])

\* Mutant: the is_refreshing guard is missing.
refresh_in_background_unguarded(app, service) ==
    LET guard == mutex_lock([app EXCEPT !.is_refreshing = TRUE], 0)
        marked == mutex_unlock([guard EXCEPT !.bg_state.is_loading = TRUE])
    IN  [marked EXCEPT !.workers = spawn(@, service)]

\* Mutant: the snapshot is not marked as loading when a cycle starts.
refresh_in_background_no_mark(app, service) ==
    IF app.is_refreshing THEN app
    ELSE [app EXCEPT !.is_refreshing = TRUE, !.workers = spawn(@, service)]

\* NetworkSwitcherApp::refresh_in_background
refresh_in_background(app, service) ==
    IF app.is_refreshing THEN app
    ELSE
    LET guard == mutex_lock([app EXCEPT !.is_refreshing = TRUE], 0)
        marked == mutex_unlock([guard EXCEPT !.bg_state.is_loading = TRUE])
    IN  [marked EXCEPT !.workers = spawn(@, service)]

\* Mutant: every tick reports a network change.
check_bg_state_always_changed(app) ==
    LET guard == mutex_lock(app, 0)
        state == guard.bg_state
    IN  IF ~state.is_loading /\ guard.is_refreshing
        THEN [app |-> mutex_unlock(
                         [guard EXCEPT !.current_ssid = state.ssid,
                                       !.current_router_mac = state.router_mac,
                                       !.current_network_config = state.config,
                                       !.is_refreshing = FALSE]),
              network_changed |-> TRUE]
        ELSE [app |-> mutex_unlock(guard), network_changed |-> TRUE]

\* NetworkSwitcherApp::check_bg_state: the app after the call and the flag
\* it returns.  The guard lives for the if-let block and is dropped before
\* the method returns.
check_bg_state(app) ==
    LET guard == mutex_lock(app, 0)
        state == guard.bg_state
    IN  IF ~state.is_loading /\ guard.is_refreshing
        THEN [app |-> mutex_unlock(
                         [guard EXCEPT !.current_ssid = state.ssid,
                                       !.current_router_mac = state.router_mac,
                                       !.current_network_config = state.config,
                                       !.is_refreshing = FALSE]),
              network_changed |->
                  (app.current_ssid # state.ssid
                     \/ app.current_router_mac # state.router_mac)]
        ELSE [app |-> mutex_unlock(guard), network_changed |-> FALSE]

\* Mutant: a successful apply is not recorded as the last applied one.
apply_config_internal_no_record(app, cfg, outcome, by) ==
    IF app.selected_service_idx >= Len(app.network_services)
    THEN [app EXCEPT !.panicked = TRUE]
    ELSE
    LET target_service ==
            unwrap_or(cfg.target_service,
                      app.network_services[app.selected_service_idx + 1])
        res == apply_config(target_service, cfg, outcome)
        logged == [app EXCEPT !.applier_calls =
                      Append(@, [by |-> by, name |-> cfg.name,
                                 service |-> target_service, ok |-> res.ok,
                                 locked |-> app.mutex = Some(0)])]
    IN  IF res.ok
        THEN refresh_in_background(
                 [logged EXCEPT !.status_message = <<"applied">>],
                 target_service)
        ELSE [logged EXCEPT !.status_message = <<"apply failed">>]

\* Mutant: only the automatic path records what it applied.
apply_config_internal_auto_only(app, cfg, outcome, by) ==
    IF app.selected_service_idx >= Len(app.network_services)
    THEN [app EXCEPT !.panicked = TRUE]
    ELSE
    LET target_service ==
            unwrap_or(cfg.target_service,
                      app.network_services[app.selected_service_idx + 1])
        res == apply_config(target_service, cfg, outcome)
        logged == [app EXCEPT !.applier_calls =
                      Append(@, [by |-> by, name |-> cfg.name,
                                 service |-> target_service, ok |-> res.ok,
                                 locked |-> app.mutex = Some(0)])]
    IN  IF res.ok
        THEN refresh_in_background(
                 [logged EXCEPT
                     !.status_message = <<"applied">>,
                     !.last_applied_key =
                         IF by = "auto" THEN Some(config_key(cfg)) ELSE @],
                 target_service)
        ELSE [logged EXCEPT !.status_message = <<"apply failed">>]

\* Mutant: the display is refreshed after every attempt, failed or not.
apply_config_internal_refresh_always(app, cfg, outcome, by) ==
    IF app.selected_service_idx >= Len(app.network_services)
    THEN [app EXCEPT !.panicked = TRUE]
    ELSE
    LET target_service ==
            unwrap_or(cfg.target_service,
                      app.network_services[app.selected_service_idx + 1])
        res == apply_config(target_service, cfg, outcome)
        logged == [app EXCEPT !.applier_calls =
                      Append(@, [by |-> by, name |-> cfg.name,
                                 service |-> target_service, ok |-> res.ok,
                                 locked |-> app.mutex = Some(0)])]
    IN  IF res.ok
        THEN refresh_in_background(
                 [logged EXCEPT
                     !.status_message = <<"applied">>,
                     !.last_applied_key = Some(config_key(cfg))],
                 target_service)
        ELSE refresh_in_background(
                 [logged EXCEPT !.status_message = <<"apply failed">>],
                 target_service)

\* NetworkSwitcherApp::apply_config_internal.  by tells the automatic path
\* from the "apply" button in the history of Applier invocations, which
\* also keeps whether the calling thread (0, the one that draws the frames)
\* held the lock during the actuator calls.  The
\* selected service is indexed before unwrap_or looks at target_service, so
\* an index out of range panics whatever the config says.
apply_config_internal(app, cfg, outcome, by) ==
    IF app.selected_service_idx >= Len(app.network_services)
    THEN [app EXCEPT !.panicked = TRUE]
    ELSE
    LET target_service ==
            unwrap_or(cfg.target_service,
                      app.network_services[app.selected_service_idx + 1])
        res == apply_config(target_service, cfg, outcome)
        logged == [app EXCEPT !.applier_calls =
                      Append(@, [by |-> by, name |-> cfg.name,
                                 service |-> target_service, ok |-> res.ok,
                                 locked |-> app.mutex = Some(0)])]
    IN  IF res.ok
        THEN refresh_in_background(
                 [logged EXCEPT
                     !.status_message = <<"applied">>,
                     !.last_applied_key = Some(config_key(cfg))],
                 target_service)
        ELSE [logged EXCEPT !.status_message = <<"apply failed">>]

\* Mutant: the skip test asks whether anything was applied, not whether this
\* config was.
try_auto_apply_skip_after_any(app, ord, outcome) ==
    IF ~app.config.auto_switch THEN app
    ELSE IF ~app.current_ssid.some THEN app
    ELSE
    LET found == find_auto_apply_config(app.config.configs, ord,
                                        app.current_ssid.val,
                                        app.current_router_mac)
    IN  IF found.some
        THEN IF app.last_applied_key.some
             THEN app
             ELSE apply_config_internal(app, found.val, outcome, "auto")
        ELSE [app EXCEPT !.last_applied_key = None]

\* Mutant: the decision does not look at the auto-switch setting.
try_auto_apply_ignores_switch(app, ord, outcome) ==
    IF ~app.current_ssid.some THEN app
    ELSE
    LET found == find_auto_apply_config(app.config.configs, ord,
                                        app.current_ssid.val,
                                        app.current_router_mac)
    IN  IF found.some
        THEN IF app.last_applied_key = Some(config_key(found.val))
             THEN app
             ELSE apply_config_internal(app, found.val, outcome, "auto")
        ELSE [app EXCEPT !.last_applied_key = None]

\* Mutant: the record of the last applied config survives a search that
\* finds nothing.
try_auto_apply_keeps_record(app, ord, outcome) ==
    IF ~app.config.auto_switch THEN app
    ELSE IF ~app.current_ssid.some THEN app
    ELSE
    LET found == find_auto_apply_config(app.config.configs, ord,
                                        app.current_ssid.val,
                                        app.current_router_mac)
    IN  IF found.some
        THEN IF app.last_applied_key = Some(config_key(found.val))
             THEN app
             ELSE apply_config_internal(app, found.val, outcome, "auto")
        ELSE app

\* Mutant: a config that try_auto_apply applies is disarmed in the store,
\* so that it is not applied again.
try_auto_apply_disarms(app, ord, outcome) ==
    IF ~app.config.auto_switch THEN app
    ELSE IF ~app.current_ssid.some THEN app
    ELSE
    LET found == find_auto_apply_config(app.config.configs, ord,
                                        app.current_ssid.val,
                                        app.current_router_mac)
    IN  IF found.some
        THEN IF app.last_applied_key = Some(config_key(found.val))
             THEN app
             ELSE [apply_config_internal(app, found.val, outcome, "auto")
                      EXCEPT !.config.configs[config_key(found.val)].auto_apply
                                 = FALSE]
        ELSE [app EXCEPT !.last_applied_key = None]

\* NetworkSwitcherApp::try_auto_apply; ord is the traversal order of the
\* store during the search.
try_auto_apply(app, ord, outcome) ==
    IF ~app.config.auto_switch THEN app
    ELSE IF ~app.current_ssid.some THEN app
    ELSE
    LET found == find_auto_apply_config(app.config.configs, ord,
                                        app.current_ssid.val,
                                        app.current_router_mac)
    IN  IF found.some
        THEN IF app.last_applied_key = Some(config_key(found.val))
             THEN app
             ELSE apply_config_internal(app, found.val, outcome, "auto")
        ELSE [app EXCEPT !.last_applied_key = None]

\* The second half of check_and_auto_apply, from the test of last_check on:
\* every five seconds a refresh for the selected service.
refresh_on_cadence(app) ==
    IF app.panicked THEN app
    ELSE IF ~app.check_due THEN app
    ELSE IF app.selected_service_idx >= Len(app.network_services)
    THEN [app EXCEPT !.check_due = FALSE, !.panicked = TRUE]
    ELSE refresh_in_background(
             [app EXCEPT !.check_due = FALSE],
             app.network_services[app.selected_service_idx + 1])

\* Mutant: the decision waits for the 5-second cadence, after the refresh.
check_and_auto_apply_on_cadence(app, ord, outcome) ==
    LET checked == check_bg_state(app)
        polled == IF ~checked.app.check_due THEN checked.app
                  ELSE IF checked.app.selected_service_idx
                             >= Len(checked.app.network_services)
                  THEN [checked.app EXCEPT !.check_due = FALSE,
                                           !.panicked = TRUE]
                  ELSE refresh_in_background(
                           [checked.app EXCEPT !.check_due = FALSE],
                           checked.app.network_services[
                               checked.app.selected_service_idx + 1])
    IN  IF polled.panicked \/ ~app.check_due THEN polled
        ELSE IF checked.network_changed
        THEN try_auto_apply(polled, ord, outcome)
        ELSE polled

\* NetworkSwitcherApp::check_and_auto_apply
check_and_auto_apply(app, ord, outcome) ==
    LET checked == check_bg_state(app)
        decided == IF checked.network_changed
                   THEN try_auto_apply(checked.app, ord, outcome)
                   ELSE checked.app
    IN  refresh_on_cadence(decided)

\* NetworkSwitcherApp::verify_password
verify_password(app, correct) ==
    IF correct
    THEN LET unlocked == [app EXCEPT !.is_authenticated = TRUE,
                                     !.password_error = FALSE]
         IN  IF unlocked.selected_service_idx >= Len(unlocked.network_services)
             THEN [unlocked EXCEPT !.panicked = TRUE]
             ELSE refresh_in_background(
                      unlocked,
                      unlocked.network_services[unlocked.selected_service_idx + 1])
    ELSE [app EXCEPT !.password_error = TRUE]

(***************************************************************************)
(* Actions of the running program: one per kind of update() frame, one for *)
(* the refresh thread, one for the passing of time.                        *)
(***************************************************************************)
\* The configs the edit panel saves in the runs of the whole program.
CfgHomeMac ==
    [NetworkConfig_new("A", "Home", None, "Wifi", Some(Str("aa:bb")))
        EXCEPT !.auto_apply = TRUE]

CfgAnywhere ==
    [NetworkConfig_new("B", "", Some("Ethernet"), "Service", None)
        EXCEPT !.auto_apply = TRUE,
               !.use_dhcp = FALSE,
               !.ip_address = Some("10.0.0.2"),
               !.dns_servers = <<"9.9.9.9", "1.1.1.1">>]

AppUniverse == {CfgHomeMac, CfgAnywhere}

\* A frame drawn once unlocked starts with bg_state.lock(), which waits
\* while a refresh thread holds the lock.
Running == is_authenticated /\ ~panicked /\ can_lock(mutex)

\* update() while locked: the password screen, a password submitted.  The
\* right password goes on to refresh_in_background, whose bg_state.lock()
\* waits while a refresh thread holds the lock.
SubmitPassword(correct) ==
    /\ ~is_authenticated
    /\ ~panicked
    /\ (/\ correct
        /\ selected_service_idx < Len(network_services)
        /\ ~is_refreshing) => can_lock(mutex)
    /\ \E app \in {verify_password(Cur, correct)} : Commit(app)
    /\ UNCHANGED call

\* ---------------------------------------------------------------------
\* Persistence: the JSON document in the user's config directory.

\* What the config path can hold: nothing, a file that cannot be read as
\* text, text that is not a configuration document, or a written document.
NoFile == [kind |-> "missing"]

Unreadable == [kind |-> "unreadable"]

CorruptText == [kind |-> "text", parses |-> FALSE]

\* serde_json::to_string_pretty: the members of "configs" are written in the
\* traversal order ord of the map.
to_string_pretty(document, ord) ==
    [parses |-> TRUE,
     configs |-> [k \in 1..Len(ord) |->
                     [key |-> ord[k], value |-> document.configs[ord[k]]]],
     auto_switch |-> document.auto_switch,
     network_service |-> document.network_service]

\* serde_json::from_str: the members are inserted into a fresh map one after
\* the other, so of two members with one key the later stays.
from_str(text) ==
    IF text.parses
    THEN Some([configs |->
                  [key \in {text.configs[k].key : k \in 1..Len(text.configs)} |->
                      text.configs[MaxOf({k \in 1..Len(text.configs) :
                                             text.configs[k].key = key})].value],
               auto_switch |-> text.auto_switch,
               network_service |-> text.network_service])
    ELSE None

\* AppConfig::load that keeps what it can of a file it cannot parse.
AppConfig_load_partial(file) ==
    IF file.kind # "missing"
    THEN IF file.kind = "text"
         THEN unwrap_or(from_str(file),
                        [AppConfig_default EXCEPT !.auto_switch = TRUE])
         ELSE AppConfig_default
    ELSE AppConfig_default

\* AppConfig::load: the default document unless the file parses.
AppConfig_load(file) ==
    IF file.kind # "missing"
    THEN IF file.kind = "text"
         THEN unwrap_or(from_str(file), AppConfig_default)
         ELSE AppConfig_default
    ELSE AppConfig_default

\* How a save can go: both steps succeed, the directory cannot be created, or
\* the write fails after leaving the file as it was or after truncating it.
SaveOutcomes == {"ok", "create_dir_fails", "write_fails", "write_fails_truncated"}

\* AppConfig::save: the Result handed back to the caller.
AppConfig_save(document, ord, outcome) ==
    IF outcome = "create_dir_fails" THEN [ok |-> FALSE, err |-> "create_dir_all"]
    ELSE IF outcome = "ok" THEN [ok |-> TRUE, err |-> ""]
    ELSE [ok |-> FALSE, err |-> "write"]

\* AppConfig::save: the file it leaves behind.
file_after_save(document, ord, file, outcome) ==
    IF outcome = "create_dir_fails" \/ outcome = "write_fails" THEN file
    ELSE IF outcome = "ok"
         THEN [kind |-> "text"] @@ to_string_pretty(document, ord)
         ELSE CorruptText

\* One call of self.config.save() as a handler makes it: the document it was
\* given and the Result, which the handlers drop (let _ = ...).
save_attempt(app, outcome) ==
    [document |-> app.config, ord |-> app.layout, outcome |-> outcome,
     result |-> AppConfig_save(app.config, app.layout, outcome)]

\* The combo-box handler: select, remember, refresh, save.
select_service(app, i, outcome) ==
    LET service == app.network_services[i + 1]
        selected == refresh_in_background(
                        [app EXCEPT !.selected_service_idx = i,
                                    !.config.network_service = service],
                        service)
    IN  [app |-> selected, saves |-> <<save_attempt(selected, outcome)>>]

\* The auto-switch checkbox handler: the flag is flipped, then saved.
toggle_auto_switch(app, outcome) ==
    LET toggled == [app EXCEPT !.config.auto_switch = ~@]
    IN  [app |-> toggled, saves |-> <<save_attempt(toggled, outcome)>>]

\* The delete handler that puts the config back when the save fails.
click_delete_rollback(app, key, lay, outcome) ==
    LET cfg == app.config.configs[key]
        removed == [app EXCEPT
                       !.config.configs = remove_config(@, config_key(cfg)),
                       !.layout = lay]
        attempt == save_attempt(removed, outcome)
    IN  [app |-> IF attempt.result.ok THEN removed ELSE app,
         saves |-> <<attempt>>]

\* The delete button handler of the row that shows the entry stored under
\* key: the row holds a copy cfg of the entry, and the handler removes what
\* is stored under cfg.config_key(), then saves.
click_delete(app, key, lay, outcome) ==
    LET cfg == app.config.configs[key]
        removed == [app EXCEPT
                       !.config.configs = remove_config(@, config_key(cfg)),
                       !.layout = lay]
    IN  [app |-> removed, saves |-> <<save_attempt(removed, outcome)>>]

\* Mutant: saving the config named by the last applied record clears the
\* record.
click_save_edit_forgets_applied(app, editing, lay, outcome) ==
    LET added == [app EXCEPT !.config.configs = add_config(@, editing),
                             !.layout = lay]
    IN  [app |-> [added EXCEPT
                     !.status_message = <<"saved">>,
                     !.last_applied_key =
                         IF @ = Some(config_key(editing)) THEN None ELSE @],
         saves |-> <<save_attempt(added, outcome)>>]

\* The edit panel's save button handler: add_config, save, "saved".
click_save_edit(app, editing, lay, outcome) ==
    LET added == [app EXCEPT !.config.configs = add_config(@, editing),
                             !.layout = lay]
    IN  [app |-> [added EXCEPT !.status_message = <<"saved">>],
         saves |-> <<save_attempt(added, outcome)>>]

\* ---------------------------------------------------------------------
\* update() once unlocked.  A frame is check_and_auto_apply followed by the
\* handler of what the user did in it.  network::apply_config waits for the
\* networksetup commands, and the refresh threads run meanwhile: a frame
\* that calls it stops at the call (frame says where) and goes on in a later
\* step, when the call returns.

\* What a frame can carry as input: nothing, or one click.
InputIdle == [kind |-> "idle"]

InputRefresh == [kind |-> "refresh"]

InputSelect(i) == [kind |-> "select_service", i |-> i]

InputToggle == [kind |-> "toggle_auto_switch"]

InputApply(key) == [kind |-> "click_apply", key |-> key]

InputDelete(key) == [kind |-> "click_delete", key |-> key]

InputSaveEdit(editing) == [kind |-> "click_save_edit", editing |-> editing]

\* The widget the input needs is on the screen.
Offered(input) ==
    CASE input.kind = "select_service" -> input.i < Len(network_services)
      [] input.kind \in {"click_apply", "click_delete"} ->
            input.key \in DOMAIN config.configs
      [] OTHER -> TRUE

\* The layouts the store can have after the handler of input.
layouts_after(app, input) ==
    CASE input.kind = "click_delete" ->
            LET name == config_key(app.config.configs[input.key])
            IN  IF name \in DOMAIN app.config.configs
                THEN layouts_after_mutation(
                         remove_config(app.config.configs, name))
                ELSE {app.layout}
      [] input.kind = "click_save_edit" ->
            layouts_after_mutation(add_config(app.config.configs, input.editing))
      [] OTHER -> {app.layout}

\* The handlers of the inputs that call no actuator, on the state the tick
\* left; lay is the layout of the store afterwards, outcome that of the save.
handle(app, input, lay, outcome) ==
    CASE input.kind = "refresh" ->
            [app |-> IF app.is_refreshing THEN app
                     ELSE refresh_in_background(
                              app, app.network_services[app.selected_service_idx + 1]),
             saves |-> <<>>]
      [] input.kind = "select_service" -> select_service(app, input.i, outcome)
      [] input.kind = "toggle_auto_switch" -> toggle_auto_switch(app, outcome)
      [] input.kind = "click_delete" -> click_delete(app, input.key, lay, outcome)
      [] input.kind = "click_save_edit" ->
            click_save_edit(app, input.editing, lay, outcome)
      [] OTHER -> [app |-> app, saves |-> <<>>]

\* render_config_list draws one row per value of the store, sorted by name
\* with sort_by, which keeps values() order among equal names: the row of
\* the entry stored under k comes before that of the entry under key.
row_before(app, k, key) ==
    LET a == app.config.configs[k].name
        b == app.config.configs[key].name
        place(x) == CHOOSE i \in 1..Len(app.layout) : app.layout[i] = x
    IN  IF a = b THEN place(k) < place(key) ELSE str_lt(Str(a), Str(b))

\* A row starts with display_name: the list panics at the first row whose
\* display_name does.
list_panics(app) ==
    \E k \in DOMAIN app.config.configs :
       display_name_panics(app.config.configs[k])

\* The buttons of the row of key are drawn: display_name returned for it and
\* for every row before it.
row_drawn(app, key) ==
    \A k \in DOMAIN app.config.configs :
       (k = key \/ row_before(app, k, key))
          => ~display_name_panics(app.config.configs[k])

\* The frame gets as far as the widget of input: the buttons of a row are
\* drawn in the row, after its display_name, and the edit panel after the
\* whole list; the other widgets come before the list.
reaches(app, input) ==
    CASE input.kind \in {"click_apply", "click_delete"} ->
            row_drawn(app, input.key)
      [] input.kind = "click_save_edit" -> ~list_panics(app)
      [] OTHER -> TRUE

\* The frame thread takes the lock in refresh_in_background only, past its
\* test of is_refreshing: what it does to arrive at app takes the lock
\* exactly when it sets is_refreshing, and waits for it while a refresh
\* thread holds it.
LockTaken(app) == app.is_refreshing /\ ~is_refreshing

\* The frame ends: nothing is waited for, and a frame that is logged leaves
\* in call what it was given, the document and the last applied record its
\* last step began with, and the saves it attempted.
EndFrame(done, input, log) ==
    /\ LockTaken(done.app) => can_lock(mutex)
    /\ Commit([done.app EXCEPT !.frame = None])
    /\ call' = IF log
               THEN [fn |-> input.kind, input |-> input, before |-> config,
                     last_applied_key |-> last_applied_key,
                     saves |-> done.saves]
               ELSE call

\* The rest of a frame whose check_and_auto_apply left app: the handler of
\* input, up to the call of network::apply_config if it makes one.  Every
\* frame indexes network_services with selected_service_idx to draw the
\* combo box, after the refresh button (which indexes it too) and before
\* every other widget, and panics there when the index is out of range.
\* The config list is drawn from a copy of the store taken before its first
\* row: a frame that does not reach the widget of its input panics before
\* the handler, and any other frame panics after it when a row, which can
\* be one the handler removed from the store, has a display_name that
\* panics.
Finish(app, input, log) ==
    IF app.panicked
    THEN EndFrame([app |-> app, saves |-> <<>>], input, log)
    ELSE IF app.selected_service_idx >= Len(app.network_services)
    THEN EndFrame([app |-> [app EXCEPT !.panicked = TRUE], saves |-> <<>>],
                  input, log)
    ELSE IF ~reaches(app, input)
    THEN EndFrame([app |-> [app EXCEPT !.panicked = TRUE], saves |-> <<>>],
                  input, log)
    ELSE IF input.kind = "click_apply"
    THEN /\ LockTaken(app) => can_lock(mutex)
         /\ Commit([app EXCEPT !.frame =
                       Some([at |-> "manual", ord |-> app.layout,
                             input |-> input, log |-> log])])
         /\ UNCHANGED call
    ELSE \E lay \in layouts_after(app, input) :
            \E done \in { IF log THEN h ELSE [app |-> h.app, saves |-> <<>>] :
                            h \in { handle(app, input, lay, outcome) :
                                      outcome \in SaveOutcomes } } :
               EndFrame([done EXCEPT !.app.panicked = list_panics(app)],
                        input, log)

\* update() is entered with input.  When check_and_auto_apply is about to
\* apply a config, the frame has run check_bg_state and waits in
\* network::apply_config; otherwise check_and_auto_apply runs to its end and
\* the handler follows.
Update(input, log) ==
    /\ Running
    /\ ~frame.some
    /\ Len(workers) < MaxWorkers
    /\ Offered(input)
    /\ \E ord \in values_orders(layout) :
          LET tick == check_and_auto_apply(Cur, ord, "ok")
          IN  IF tick.applier_calls # <<>>
              THEN /\ Commit([check_bg_state(Cur).app EXCEPT !.frame =
                                 Some([at |-> "auto", ord |-> ord,
                                       input |-> input, log |-> log])])
                   /\ UNCHANGED call
              ELSE Finish(tick, input, log)

\* network::apply_config returns to try_auto_apply: the arm of the match in
\* apply_config_internal, the rest of check_and_auto_apply, the handler.
AutoApplyReturns(outcome) ==
    /\ frame.some
    /\ frame.val.at = "auto"
    /\ ~panicked
    /\ Finish(refresh_on_cadence(try_auto_apply(Cur, frame.val.ord, outcome)),
              frame.val.input, frame.val.log)

\* network::apply_config returns to the "apply" button's handler: the arm of
\* the match in apply_config_internal, then the rows after the clicked one,
\* where the frame panics when the display_name of one of them does, and
\* the frame ends.
ManualApplyReturns(outcome) ==
    /\ frame.some
    /\ frame.val.at = "manual"
    /\ ~panicked
    /\ EndFrame([app |-> [apply_config_internal(
                             Cur, config.configs[frame.val.input.key],
                             outcome, "manual")
                            EXCEPT !.panicked = list_panics(Cur)],
                 saves |-> <<>>],
                frame.val.input, frame.val.log)

\* update() with no input.
UpdateIdle == Update(InputIdle, FALSE)

\* update() with the refresh button clicked.
UpdateRefreshClick == Update(InputRefresh, FALSE)

\* update() with entry i of the service combo box clicked.
UpdateSelectService(i) == Update(InputSelect(i), FALSE)

\* update() with the auto-switch checkbox changed.
UpdateToggleAutoSwitch == Update(InputToggle, FALSE)

\* update() with the "apply" button of config key clicked.
UpdateApplyClick(key) == Update(InputApply(key), FALSE)

\* update() with the delete button of config key clicked.
UpdateDeleteClick(key) == Update(InputDelete(key), FALSE)

\* update() with the save button of the edit panel clicked, editing being cfg.
UpdateSaveEdit(cfg) == Update(InputSaveEdit(cfg), FALSE)

(***************************************************************************)
(* The refresh cycle, instruction by instruction.  The body of the refresh *)
(* thread is a list of instructions, each one step of the thread: the two  *)
(* probe calls, the lock, the four assignments made through the guard, and *)
(* the drop of the guard at the end of the if-let block.                   *)
(***************************************************************************)
Instr(op) == [op |-> op, field |-> ""]

Write(field) == [op |-> "write", field |-> field]

\* Mutant: the loading flag is cleared in a critical section of its own,
\* before the probe results are written.
worker_body_flag_first ==
    << Instr("get_network_identity"), Instr("get_current_config"),
       Instr("lock"), Write("is_loading"), Instr("unlock"),
       Instr("lock"), Write("ssid"), Write("router_mac"), Write("config"),
       Instr("unlock") >>

\* Mutant: the lock is taken before the probe calls.
worker_body_lock_first ==
    << Instr("lock"),
       Instr("get_network_identity"), Instr("get_current_config"),
       Write("ssid"), Write("router_mac"), Write("config"),
       Write("is_loading"), Instr("unlock") >>

\* Mutant: the loading flag is never cleared.
worker_body_keeps_loading ==
    << Instr("get_network_identity"), Instr("get_current_config"),
       Instr("lock"), Write("ssid"), Write("router_mac"), Write("config"),
       Instr("unlock") >>

\* The closure refresh_in_background hands to thread::spawn.
worker_body ==
    << Instr("get_network_identity"), Instr("get_current_config"),
       Instr("lock"), Write("ssid"), Write("router_mac"), Write("config"),
       Write("is_loading"), Instr("unlock") >>

\* Thread i is about to execute an instruction op.
WorkerAt(i, op) ==
    /\ ~panicked
    /\ i \in 1..Len(workers)
    /\ workers[i].pc <= Len(worker_body)
    /\ worker_body[workers[i].pc].op = op

\* The closure of thread i returns after its current instruction.
Returns(i) == workers[i].pc = Len(worker_body)

\* What a completed refresh cycle probed, as the snapshot shows it.
Probed(worker) ==
    [fn |-> "refresh", ssid |-> display_ssid(worker.identity),
     router_mac |-> worker.identity.router_mac, config |-> worker.live]

\* Thread i, its locals now being those of after, moves to its next
\* instruction, or ends; in a run that logs the threads, call keeps what the
\* last thread to end had probed.
WorkerAdvance(i, after, log) ==
    /\ workers' =
          IF Returns(i)
          THEN [j \in 1..(Len(workers) - 1) |->
                   IF j < i THEN workers[j] ELSE workers[j + 1]]
          ELSE [workers EXCEPT ![i] = [after EXCEPT !.pc = @ + 1]]
    /\ call' = IF log /\ Returns(i) THEN Probed(after) ELSE call
    /\ applier_calls' = <<>>
    /\ UNCHANGED <<config, layout, current_ssid, current_router_mac,
                   current_network_config, network_services,
                   selected_service_idx, status_message, check_due,
                   last_applied_key, is_refreshing, is_authenticated,
                   password_error, panicked, frame>>

\* let identity = network::get_network_identity();
WorkerProbeIdentity(i, log) ==
    /\ WorkerAt(i, "get_network_identity")
    /\ \E w \in Worlds :
          WorkerAdvance(i, [workers[i] EXCEPT
                               !.identity = get_network_identity(w)], log)
    /\ UNCHANGED <<bg_state, mutex>>

\* let config = network::get_current_config(&service);
WorkerProbeConfig(i, log) ==
    /\ WorkerAt(i, "get_current_config")
    /\ WorkerAdvance(i, [workers[i] EXCEPT
                            !.live = Some(get_current_config(workers[i].service))],
                     log)
    /\ UNCHANGED <<bg_state, mutex>>

\* if let Ok(mut state) = bg_state.lock()
WorkerLock(i, log) ==
    /\ WorkerAt(i, "lock")
    /\ can_lock(mutex)
    /\ mutex' = Some(i)
    /\ WorkerAdvance(i, workers[i], log)
    /\ UNCHANGED bg_state

\* One of the four assignments to the fields of state.
WorkerWrite(i, log) ==
    /\ WorkerAt(i, "write")
    /\ LET field == worker_body[workers[i].pc].field
       IN  bg_state' =
              CASE field = "ssid" ->
                     [bg_state EXCEPT !.ssid = display_ssid(workers[i].identity)]
                [] field = "router_mac" ->
                     [bg_state EXCEPT !.router_mac = workers[i].identity.router_mac]
                [] field = "config" ->
                     [bg_state EXCEPT !.config = workers[i].live]
                [] field = "is_loading" ->
                     [bg_state EXCEPT !.is_loading = FALSE]
    /\ WorkerAdvance(i, workers[i], log)
    /\ UNCHANGED mutex

\* The guard is dropped at the end of the if-let block.
WorkerUnlock(i, log) ==
    /\ WorkerAt(i, "unlock")
    /\ mutex' = Unlocked
    /\ WorkerAdvance(i, workers[i], log)
    /\ UNCHANGED bg_state

WorkerStep(i, log) ==
    \/ WorkerProbeIdentity(i, log)
    \/ WorkerProbeConfig(i, log)
    \/ WorkerLock(i, log)
    \/ WorkerWrite(i, log)
    \/ WorkerUnlock(i, log)

\* Five seconds have passed since last_check.
Elapse ==
    /\ ~panicked
    /\ ~check_due
    /\ check_due' = TRUE
    /\ applier_calls' = <<>>
    /\ UNCHANGED <<config, layout, current_ssid, current_router_mac,
                   current_network_config, network_services,
                   selected_service_idx, status_message, last_applied_key,
                   bg_state, mutex, is_refreshing, is_authenticated,
                   password_error, workers, panicked, frame, call>>

Init ==
    \E services \in ServiceLists : InitWith(AppConfig_default, <<>>, services)

Next ==
    \/ \E correct \in BOOLEAN : SubmitPassword(correct)
    \/ UpdateIdle
    \/ UpdateRefreshClick
    \/ \E i \in 0..1 : UpdateSelectService(i)
    \/ UpdateToggleAutoSwitch
    \/ \E key \in Names : UpdateApplyClick(key)
    \/ \E key \in Names : UpdateDeleteClick(key)
    \/ \E cfg \in AppUniverse : UpdateSaveEdit(cfg)
    \/ \E outcome \in ActuatorOutcomes : AutoApplyReturns(outcome)
    \/ \E outcome \in ActuatorOutcomes : ManualApplyReturns(outcome)
    \/ \E i \in 1..MaxWorkers : WorkerStep(i, FALSE)
    \/ Elapse

Spec == Init /\ [][Next]_vars

(***************************************************************************)
(* The refresh cycle on a small store, where every interleaving of the     *)
(* frames and the instructions of the refresh thread is looked at.         *)
(***************************************************************************)
\* AppConfig::load found a document that holds CfgAnywhere.
RefreshInit ==
    \E auto_switch \in BOOLEAN :
       InitWith([configs |-> [k \in {CfgAnywhere.name} |-> CfgAnywhere],
                 auto_switch |-> auto_switch, network_service |-> ""],
                <<CfgAnywhere.name>>, <<"Wi-Fi", "Ethernet">>)

RefreshNext ==
    \/ \E correct \in BOOLEAN : SubmitPassword(correct)
    \/ UpdateIdle
    \/ \E i \in 0..1 : UpdateSelectService(i)
    \/ \E key \in Names : UpdateApplyClick(key)
    \/ \E outcome \in ActuatorOutcomes : AutoApplyReturns(outcome)
    \/ \E outcome \in ActuatorOutcomes : ManualApplyReturns(outcome)
    \/ Elapse
    \/ \E i \in 1..MaxWorkers : WorkerStep(i, TRUE)

RefreshSpec == RefreshInit /\ [][RefreshNext]_vars

\* The frames keep coming (update asks for a repaint every second) and the
\* operating system keeps running a thread that can run.
RefreshLiveNext ==
    \/ \E correct \in BOOLEAN : SubmitPassword(correct)
    \/ UpdateIdle
    \/ UpdateRefreshClick
    \/ \E outcome \in ActuatorOutcomes : AutoApplyReturns(outcome)
    \/ Elapse
    \/ \E i \in 1..MaxWorkers : WorkerStep(i, FALSE)

RefreshLiveSpec ==
    /\ RefreshInit
    /\ [][RefreshLiveNext]_vars
    /\ WF_vars(UpdateIdle)
    /\ WF_vars(\E outcome \in ActuatorOutcomes : AutoApplyReturns(outcome))
    /\ \A i \in 1..MaxWorkers : WF_vars(WorkerStep(i, FALSE))

(***************************************************************************)
(* The applier on its own: apply_config called for every service, on the   *)
(* configs the edit panel can save, with every outcome of the commands.    *)
(***************************************************************************)
\* The DNS lists the edit panel can build: "add DNS" pushes whatever text was
\* typed, if it is not empty.
DnsLists ==
    {<<>>, <<"9.9.9.9">>, <<"9.9.9.9", "1.1.1.1">>, <<"1.1.1.1", "9.9.9.9">>,
     <<"Empty">>}

ApplyConfigs ==
    { [NetworkConfig_new("A", "Home", None, "Wifi", None)
          EXCEPT !.use_dhcp = dhcp, !.ip_address = ip, !.subnet_mask = mask,
                 !.router = router, !.dns_servers = dns] :
        dhcp \in BOOLEAN,
        ip \in {None, Some("10.0.0.2")},
        mask \in {None, Some("255.0.0.0")},
        router \in {None, Some("10.0.0.1")},
        dns \in DnsLists }

ApplyInit == InitWith(AppConfig_default, <<>>, <<"Wi-Fi", "Ethernet">>)

CallApply(service, cfg, outcome) ==
    /\ call' = [fn |-> "apply", service |-> service, cfg |-> cfg,
                outcome |-> outcome,
                result |-> apply_config(service, cfg, outcome)]
    /\ UNCHANGED <<config, layout>>
    /\ UNCHANGED app_vars

ApplyNext ==
    \E service \in {"Wi-Fi", "Ethernet"}, cfg \in ApplyConfigs,
       outcome \in ActuatorOutcomes :
       CallApply(service, cfg, outcome)

ApplySpec == ApplyInit /\ [][ApplyNext]_vars

(***************************************************************************)
(* The store on its own: add_config and remove_config called in any order, *)
(* from the empty store.                                                    *)
(***************************************************************************)
StoreNames == {"", "A", "B"}

StoreConfigs ==
    { NetworkConfig_new(name, ssid, None, "Wifi", None) :
        name \in StoreNames, ssid \in {"Home", "Office"} }

StoreInit == InitWith(AppConfig_default, <<>>, <<"Wi-Fi", "Ethernet">>)

StoreAdd(cfg) ==
    /\ config' = [config EXCEPT !.configs = add_config(@, cfg)]
    /\ layout' \in layouts_after_mutation(config'.configs)
    /\ call' = [fn |-> "add", cfg |-> cfg, before |-> config.configs]
    /\ UNCHANGED app_vars

StoreRemove(key) ==
    /\ config' = [config EXCEPT !.configs = remove_config(@, key)]
    /\ layout' \in layouts_after_mutation(config'.configs)
    /\ call' = [fn |-> "remove", key |-> key, before |-> config.configs]
    /\ UNCHANGED app_vars

StoreNext ==
    \/ \E cfg \in StoreConfigs : StoreAdd(cfg)
    \/ \E key \in StoreNames : StoreRemove(key)

StoreSpec == StoreInit /\ [][StoreNext]_vars

(***************************************************************************)
(* The auto-apply decision on its own: try_auto_apply called, as            *)
(* check_and_auto_apply calls it, right after check_bg_state has consumed   *)
(* a snapshot (so no refresh is in flight), on every store, setting,        *)
(* observed identity and record of the last applied config.                 *)
(***************************************************************************)
DecisionStores ==
    { [k \in {c.name : c \in S} |-> CHOOSE c \in S : c.name = k] :
        S \in SUBSET AppUniverse }

DecisionSsids == {None, Some("Home"), Some("Office")}

DecisionMacs == {None, Some(Str("aa:bb"))}

DecisionInit ==
    \E cfgs \in DecisionStores, auto_switch \in BOOLEAN,
       ssid \in DecisionSsids, mac \in DecisionMacs,
       last \in {None, Some("A"), Some("B")}, idx \in 0..1 :
       \E lay \in Perms(DOMAIN cfgs) :
          LET services == <<"Wi-Fi", "Ethernet">>
              live == Some(get_current_config(services[idx + 1]))
          IN  /\ config = [configs |-> cfgs, auto_switch |-> auto_switch,
                           network_service |-> services[idx + 1]]
              /\ layout = lay
              /\ network_services = services
              /\ selected_service_idx = idx
              /\ current_ssid = ssid
              /\ current_router_mac = mac
              /\ current_network_config = live
              /\ status_message = <<>>
              /\ check_due = FALSE
              /\ last_applied_key = last
              /\ bg_state = [ssid |-> ssid, router_mac |-> mac,
                             config |-> live, is_loading |-> FALSE]
              /\ mutex = Unlocked
              /\ is_refreshing = FALSE
              /\ is_authenticated = TRUE
              /\ password_error = FALSE
              /\ workers = <<>>
              /\ panicked = FALSE
              /\ frame = None
              /\ applier_calls = <<>>
              /\ call = NoCall

\* One call of try_auto_apply, where check_and_auto_apply makes it: at the
\* start of a frame, check_bg_state having taken the snapshot of the one
\* refresh, so that no frame is in progress and no refresh is in flight.
\* call keeps what the decision started from.
Decide(outcome) ==
    /\ call = NoCall
    /\ ~frame.some
    /\ ~is_refreshing
    /\ workers = <<>>
    /\ can_lock(mutex)
    /\ \E ord \in values_orders(layout) :
          /\ \E app \in {try_auto_apply(Cur, ord, outcome)} : Commit(app)
          /\ call' = [fn |-> "decide",
                      last_applied_key |-> last_applied_key,
                      found |-> IF current_ssid.some
                                THEN find_auto_apply_config(
                                         config.configs, ord,
                                         current_ssid.val, current_router_mac)
                                ELSE None]

DecisionNext == \E outcome \in ActuatorOutcomes : Decide(outcome)

DecisionSpec == DecisionInit /\ [][DecisionNext]_vars

(***************************************************************************)
(* apply_config_internal on its own: from the states of DecisionInit, the  *)
(* automatic path (try_auto_apply) or the "apply" button of a config runs  *)
(* it, with every outcome of the actuator calls.                           *)
(***************************************************************************)
\* update() with the "apply" button of config key clicked, logged in call.
ClickApply(key) == Update(InputApply(key), TRUE)

OutcomeNext ==
    \/ \E outcome \in ActuatorOutcomes : Decide(outcome)
    \/ \E key \in {"A", "B"} : ClickApply(key)
    \/ \E outcome \in ActuatorOutcomes : ManualApplyReturns(outcome)
    \/ Elapse

OutcomeSpec == DecisionInit /\ [][OutcomeNext]_vars

(***************************************************************************)
(* Persistence on its own: the program starts from whatever the config     *)
(* path holds, and once unlocked the four handlers that change the stored  *)
(* document run in any order, each with every outcome of its save; a file  *)
(* can hold a router MAC that the config list cannot draw.                 *)
(***************************************************************************)
PersistDocuments ==
    { [configs |-> cfgs, auto_switch |-> auto_switch, network_service |-> service] :
        cfgs \in DecisionStores, auto_switch \in BOOLEAN,
        service \in {"", "Ethernet"} }

\* A file edited by hand, in which "configs" has the member "A" twice.
TwiceWrittenText ==
    [kind |-> "text", parses |-> TRUE,
     configs |-> <<[key |-> "A", value |-> CfgHomeMac],
                   [key |-> "A",
                    value |-> [CfgHomeMac EXCEPT !.auto_apply = FALSE]]>>,
     auto_switch |-> TRUE, network_service |-> "Ethernet"]

\* A file edited by hand, in which a member of "configs" has a key that is
\* not the name of its config.
MisnamedText ==
    [kind |-> "text", parses |-> TRUE,
     configs |-> <<[key |-> "X", value |-> CfgHomeMac],
                   [key |-> "B", value |-> CfgAnywhere]>>,
     auto_switch |-> FALSE, network_service |-> "Ethernet"]

\* A file edited by hand, in which two members of "configs" have each the
\* name of the other's config as key.
SwappedText ==
    [kind |-> "text", parses |-> TRUE,
     configs |-> <<[key |-> "B", value |-> CfgHomeMac],
                   [key |-> "A", value |-> CfgAnywhere]>>,
     auto_switch |-> FALSE, network_service |-> "Ethernet"]

\* A config whose router MAC display_name cannot slice: its byte 8 from the
\* end is inside its first character.
CfgUnsliceable ==
    [CfgAnywhere EXCEPT !.router_mac =
                           Some(<<233>> \o Str("1234567"))]

\* A file edited by hand, in which the router MAC of "B" is one that
\* display_name cannot slice.
UnsliceableText ==
    [kind |-> "text", parses |-> TRUE,
     configs |-> <<[key |-> "A", value |-> CfgHomeMac],
                   [key |-> "B", value |-> CfgUnsliceable]>>,
     auto_switch |-> FALSE, network_service |-> "Ethernet"]

PersistKeys == {"A", "B", "X"}

PersistFiles ==
    {NoFile, Unreadable, CorruptText, TwiceWrittenText, MisnamedText,
     SwappedText, UnsliceableText}
       \cup UNION { { file_after_save(document, ord, NoFile, "ok") :
                        ord \in Perms(DOMAIN document.configs) } :
                    document \in PersistDocuments }

PersistInit ==
    \E file \in PersistFiles :
       \E lay \in Perms(DOMAIN AppConfig_load(file).configs) :
          InitWith(AppConfig_load(file), lay, <<"Wi-Fi", "Ethernet">>)

CallLoad(file) ==
    /\ call' = [fn |-> "load", file |-> file, result |-> AppConfig_load(file)]
    /\ UNCHANGED <<config, layout>>
    /\ UNCHANGED app_vars

\* The frames that change the stored document, logged in call.
PersistSelectService(i) == Update(InputSelect(i), TRUE)

PersistToggleAutoSwitch == Update(InputToggle, TRUE)

PersistDelete(key) == Update(InputDelete(key), TRUE)

PersistSaveEdit(editing) == Update(InputSaveEdit(editing), TRUE)

\* The "apply" button of config key clicked in a list that has a row whose
\* display_name panics (applying from the other lists is the subject of
\* OutcomeSpec).
PersistApply(key) == list_panics(Cur) /\ ClickApply(key)

PersistNext ==
    \/ \E correct \in BOOLEAN : SubmitPassword(correct)
    \/ \E file \in PersistFiles : CallLoad(file)
    \/ \E i \in 0..1 : PersistSelectService(i)
    \/ PersistToggleAutoSwitch
    \/ \E key \in PersistKeys : PersistDelete(key)
    \/ \E editing \in AppUniverse : PersistSaveEdit(editing)
    \/ \E key \in PersistKeys : PersistApply(key)
    \/ \E outcome \in ActuatorOutcomes : ManualApplyReturns(outcome)
    \/ Elapse

PersistSpec == PersistInit /\ [][PersistNext]_vars

(***************************************************************************)
(* Properties of the controller (checked under Spec)                       *)
(***************************************************************************)
\* The Applier invocations the automatic path made, among calls.
AutoCalls(calls) == {i \in DOMAIN calls : calls[i].by = "auto"}

\* The step is taken by a refresh thread: it moves on in its closure or ends.
\* (The frame thread leaves the threads alone or starts one more.)
WorkerActs == workers' # workers /\ Len(workers') <= Len(workers)

\* The step is the passing of the five seconds.
ClockActs == check_due' /\ ~check_due

\* The step is taken by the frame thread in update(), drawn once unlocked.
FrameActs == is_authenticated /\ ~WorkerActs /\ ~ClockActs

\* The step begins a frame: a controller tick.
TickStep == FrameActs /\ ~frame.some

\* The tick leaves the observed identity as it was.
IdentityKept ==
    /\ current_ssid' = current_ssid
    /\ current_router_mac' = current_router_mac

\* C1: at most one refresh worker is in flight.  No two refresh threads
\* exist at once; while one exists the app is marked refreshing, and the
\* snapshot is loading or the thread, having cleared the flag, still holds
\* the lock (so that nothing has been consumed yet); and while the app is
\* marked refreshing a call of refresh_in_background, for any service,
\* changes nothing.
AtMostOneRefreshInFlight ==
    /\ Len(workers) <= 1
    /\ Len(workers) = 1 =>
          /\ is_refreshing
          /\ bg_state.is_loading \/ mutex = Some(1)
    /\ is_refreshing =>
          \A service \in {"Wi-Fi", "Ethernet"} :
             refresh_in_background(Cur, service) = Cur

\* A thread probing for Wi-Fi is still running although Ethernet has been
\* selected since: the refresh that the selection asked for did nothing.
RefreshIgnoredWitness ==
    /\ Len(workers) = 1
    /\ workers[1].service = "Wi-Fi"
    /\ selected_service_idx = 1
    /\ is_refreshing

\* The tick being taken hands a config to the Applier on the automatic
\* path: the frame thread is left inside apply_config.
GoesToApply == frame'.some /\ frame'.val.at = "auto"

\* apply_config returns to the automatic path in the step being taken.
AutoReturns == FrameActs /\ frame.some /\ frame.val.at = "auto"

\* C2: re-apply suppression.  A controller tick that leaves the observed
\* identity as the tick before left it does not go to the Applier on the
\* automatic path, and the automatic path invokes the Applier nowhere else
\* than in a frame whose tick went to it, once.  So of two consecutive ticks
\* the second of which leaves the identity as it was, the automatic path
\* invokes the Applier at most once in all (whether or not the store changed
\* in between).
ReapplySuppression ==
    [][/\ (TickStep /\ IdentityKept) =>
              (~GoesToApply /\ AutoCalls(applier_calls') = {})
       /\ AutoCalls(applier_calls') # {} =>
              (AutoReturns /\ Len(applier_calls') = 1)]_vars

\* The identity still matches the config recorded as last applied, and the
\* last frame invoked no Applier.
ReapplySuppressedWitness ==
    /\ config.auto_switch
    /\ current_ssid.some
    /\ ~frame.some
    /\ applier_calls = <<>>
    /\ LET found == find_auto_apply_config(config.configs, layout,
                                           current_ssid.val, current_router_mac)
       IN  found.some /\ last_applied_key = Some(found.val.name)

\* At the decision point of the tick being taken, auto-switch is on, the
\* SSID is known and the match engine returns a config (Wanted) whose name
\* is not the last applied one.
DecisionWants ==
    /\ config.auto_switch
    /\ current_ssid'.some
    /\ LET found == find_auto_apply_config(config.configs, layout,
                                           current_ssid'.val, current_router_mac')
       IN  found.some /\ last_applied_key # Some(found.val.name)

Wanted ==
    find_auto_apply_config(config.configs, layout,
                           current_ssid'.val, current_router_mac').val

\* The one Applier invocation of the step is made by the automatic path,
\* for the config the match engine returns.
AutoAppliedWanted ==
    /\ Len(applier_calls') = 1
    /\ applier_calls'[1].by = "auto"
    /\ applier_calls'[1].name = Wanted.name

\* C3 as stated: on every controller tick on which auto-switch is on, the
\* SSID is known and the match engine returns a config whose name differs
\* from the last applied one, the Applier is invoked for that config.
DecisionOnEveryTick ==
    [][(TickStep /\ DecisionWants) => GoesToApply]_vars

\* C3 as amended: the decision is taken on the ticks that observe a change
\* of identity.  On such a tick, when auto-switch is on, the new SSID is
\* known and the match engine returns a config whose name differs from the
\* last applied one, the frame thread goes to the Applier, which is invoked
\* for that config; a tick that observes no change does not go to it.
DecisionOnIdentityChange ==
    [][/\ TickStep =>
             /\ (~IdentityKept /\ DecisionWants) => GoesToApply
             /\ IdentityKept => ~GoesToApply
       /\ AutoReturns => AutoAppliedWanted]_vars

AutoAppliedWitness ==
    /\ AutoCalls(applier_calls) # {}
    /\ current_ssid.some
    /\ config.auto_switch

\* The identity the controller has processed is known and the match engine
\* yields no auto-apply config for it and the current store.
NoMatchNow ==
    /\ current_ssid.some
    /\ find_auto_apply_config(config.configs, layout,
                              current_ssid.val, current_router_mac) = None

\* The tick being taken runs the decision on a changed, known identity for
\* which the match engine yields nothing.
DecisionFindsNothing ==
    /\ TickStep
    /\ ~IdentityKept
    /\ config.auto_switch
    /\ current_ssid'.some
    /\ find_auto_apply_config(config.configs, layout,
                              current_ssid'.val, current_router_mac') = None

\* The Applier invocations among calls that succeeded.
OkCalls(calls) == {i \in DOMAIN calls : calls[i].ok}

\* C12 as stated: in every state of the unlocked program in which
\* auto-switch is on and the match engine yields no auto-apply config for
\* the processed identity and the current store, the last applied record is
\* empty.
ClearedWheneverNoMatch ==
    (Running /\ config.auto_switch /\ NoMatchNow) => last_applied_key = None

\* C12 as amended: the last applied record is cleared by the decision, and
\* only by it.  A tick that runs the decision on a changed, known identity
\* for which the match engine yields nothing leaves the record empty; and a
\* step that empties the record is such a tick.
ClearedByDecision ==
    [][/\ DecisionFindsNothing => last_applied_key' = None
       /\ (last_applied_key.some /\ last_applied_key' = None)
            => DecisionFindsNothing]_vars

\* A config was applied, and the record of it has been cleared since on an
\* identity for which the match engine yields nothing.
ClearedWitness ==
    /\ status_message = <<"applied">>
    /\ config.auto_switch
    /\ NoMatchNow
    /\ last_applied_key = None

\* The last of the Applier invocations among calls that succeeded.
LastOk(calls) ==
    CHOOSE i \in OkCalls(calls) : \A j \in OkCalls(calls) : j <= i

\* C14 as stated: the last applied record is empty or the name of the config
\* most recently applied by the automatic path.  Step by step: the record
\* takes a new name only when the automatic path applied the config of that
\* name in that step.
RecordsLastAutoApply ==
    [][(last_applied_key' # last_applied_key /\ last_applied_key'.some) =>
          \E i \in AutoCalls(applier_calls') :
             applier_calls'[i].name = last_applied_key'.val]_vars

\* C14 as amended: the last applied record is empty or the name of the
\* config most recently applied with success, by the automatic path or by
\* the "apply" button.  Step by step: a step in which an Applier invocation
\* succeeded leaves the record naming the config so applied; any other step
\* leaves the record as it was, or empty when it is a tick whose decision
\* found nothing; so store mutations, the refresh thread and the passing of
\* time do not touch it.
RecordsLastSuccessfulApply ==
    [][IF OkCalls(applier_calls') # {}
       THEN last_applied_key' =
               Some(applier_calls'[LastOk(applier_calls')].name)
       ELSE \/ last_applied_key' = last_applied_key
            \/ (last_applied_key' = None /\ DecisionFindsNothing)]_vars

\* The "apply" button applied a config while auto-switch was off, and the
\* record names that config.
ManualApplyRecordedWitness ==
    /\ ~config.auto_switch
    /\ Len(applier_calls) = 1
    /\ applier_calls[1].by = "manual"
    /\ applier_calls[1].ok
    /\ last_applied_key = Some(applier_calls[1].name)

\* C15: on a controller tick that consumes a snapshot whose SSID or router
\* MAC differs from the values observed before, the decision runs on that
\* tick, whether or not the 5-second cadence has elapsed, and before the
\* cadence refresh.  With auto-switch on and the new SSID known: for a
\* wanted match the frame thread goes to the Applier on that tick, before
\* it has looked at last_check or started a refresh, and when the Applier
\* succeeds the one refresh in flight afterwards is the one the apply
\* started (for the service it applied to), not the cadence refresh; and
\* when nothing matches, the last applied record is cleared on that tick.
DecisionRunsOnChangeTick ==
    [][/\ (TickStep /\ ~IdentityKept /\ config.auto_switch /\ current_ssid'.some)
          => /\ DecisionWants =>
                   /\ GoesToApply
                   /\ workers' = <<>>
                   /\ check_due' = check_due
             /\ DecisionFindsNothing => last_applied_key' = None
       /\ AutoReturns =>
             /\ AutoAppliedWanted
             /\ applier_calls'[1].ok =>
                   /\ Len(workers') = 1
                   /\ workers'[1].service = applier_calls'[1].service
                   /\ workers'[1].pc = 1]_vars

\* The decision handed a config to the Applier (which failed, so that no
\* refresh followed) in a frame that started no cadence refresh: the cadence
\* window had not elapsed in it.
DecisionOffCadenceWitness ==
    /\ AutoCalls(applier_calls) # {}
    /\ ~applier_calls[1].ok
    /\ ~is_refreshing
    /\ ~check_due

\* C24: the live settings in the snapshot are those of the selected service:
\* every probe cycle is issued for the service that is selected when it is
\* issued, after any sequence of selections, cadence refreshes and applies.
\* Step by step: a refresh thread started in a step of the frame thread
\* probes for the service that was selected before the step or for the one
\* selected in it.
ProbesSelectedService ==
    [][Len(workers') > Len(workers) =>
          workers'[Len(workers')].service \in
             {network_services[selected_service_idx + 1],
              network_services[selected_service_idx' + 1]}]_vars

\* C25: no reachable state terminates the process.  Resolving the selected
\* service, on unlock, on the cadence refresh and in apply, succeeds for
\* every list of services, the empty one included: the program never
\* panics.
NeverPanics == ~panicked

(***************************************************************************)
(* Properties of the match engine (checked under MatchSpec)                *)
(***************************************************************************)
StoredConfigs == {config.configs[k] : k \in DOMAIN config.configs}

\* A config with a non-empty ssid that is bound to a router MAC.
MacBound(cfg) == cfg.ssid # "" /\ cfg.router_mac.some

\* cfg qualifies in pass 1 or in pass 2 of the auto-apply search.
Qualifies(cfg, ssid, router_mac) ==
    \/ matches_network(cfg, ssid, router_mac)
    \/ (cfg.ssid = ssid /\ ~cfg.router_mac.some)

\* C4: fail closed on an unverifiable MAC.  A config with a non-empty ssid
\* and a router MAC never matches when the probed MAC is absent; and with the
\* probed MAC absent the auto-apply search never returns such a config, and
\* returns nothing when every auto-apply config that could stand for the
\* probed SSID (same ssid, or the wildcard ssid) is such a MAC-bound config.
FailClosedOnAbsentMac ==
    /\ (call.fn = "matches" /\ MacBound(call.cfg) /\ ~call.router_mac.some)
          => ~call.result
    /\ (call.fn = "find" /\ ~call.router_mac.some) =>
          /\ call.result.some => ~MacBound(call.result.val)
          /\ (\A c \in StoredConfigs :
                 (c.auto_apply /\ (c.ssid = call.ssid \/ c.ssid = ""))
                    => MacBound(c))
                => call.result = None

FailClosedWitness ==
    /\ call.fn = "find"
    /\ ~call.router_mac.some
    /\ \E c \in StoredConfigs : c.auto_apply /\ c.ssid = call.ssid /\ MacBound(c)
    /\ \A c \in StoredConfigs :
          (c.auto_apply /\ (c.ssid = call.ssid \/ c.ssid = "")) => MacBound(c)
    /\ call.result = None

\* C5: case-insensitive MAC match.  For a config with a non-empty ssid and a
\* router MAC m, asked about its own ssid and a probed MAC m', the answer is
\* true exactly when m' equals m ignoring letter case.
CaseInsensitiveMacMatch ==
    (/\ call.fn = "matches"
     /\ MacBound(call.cfg)
     /\ call.ssid = call.cfg.ssid
     /\ call.router_mac.some)
       => (call.result <=>
              to_lowercase(call.router_mac.val) = to_lowercase(call.cfg.router_mac.val))

\* C6: tie-break.  When the store holds an auto-apply config bound to the
\* probed MAC and an auto-apply config with the same non-empty ssid and no
\* MAC, and the probe reports that ssid with that MAC, the search returns the
\* MAC-bound config.
TieBreakPrefersMacBound ==
    (/\ call.fn = "find"
     /\ call.router_mac.some
     /\ \E a, b \in StoredConfigs :
           /\ a.auto_apply /\ b.auto_apply
           /\ a.ssid = call.ssid /\ b.ssid = call.ssid /\ call.ssid # ""
           /\ a.router_mac = call.router_mac
           /\ ~b.router_mac.some)
       => (/\ call.result.some
           /\ call.result.val.ssid = call.ssid
           /\ call.result.val.router_mac = call.router_mac)

\* C7: the search returns a config only if it is in the store, has
\* auto_apply set and qualifies in pass 1 or pass 2; it returns nothing
\* exactly when no auto-apply config of the store qualifies.
FindReturnsOnlyQualifying ==
    call.fn = "find" =>
        /\ call.result.some =>
              /\ call.result.val \in StoredConfigs
              /\ call.result.val.auto_apply
              /\ Qualifies(call.result.val, call.ssid, call.router_mac)
        /\ ~call.result.some <=>
              ~\E c \in StoredConfigs :
                  c.auto_apply /\ Qualifies(c, call.ssid, call.router_mac)

FindSkipsNonAutoWitness ==
    /\ call.fn = "find"
    /\ call.result.some
    /\ \E c \in StoredConfigs :
          /\ ~c.auto_apply
          /\ c.ssid = call.ssid
          /\ matches_network(c, call.ssid, call.router_mac)

\* C8: wildcard.  A config with an empty ssid matches every probed SSID and
\* every probed MAC, present or absent, whatever router MAC it carries.
WildcardMatchesAll ==
    (call.fn = "matches" /\ call.cfg.ssid = "") => call.result

WildcardWitness ==
    /\ call.fn = "matches"
    /\ call.cfg.ssid = ""
    /\ call.cfg.router_mac.some
    /\ call.router_mac.some
    /\ call.cfg.router_mac # call.router_mac
    /\ call.result

\* C9: a config with a non-empty ssid and no router MAC matches exactly when
\* the probed SSID equals its ssid, whatever the probed MAC; and a config
\* whose non-empty ssid differs from the probed SSID never matches.
MacLessMatchesOnSsidAlone ==
    (call.fn = "matches" /\ call.cfg.ssid # "") =>
        /\ ~call.cfg.router_mac.some => (call.result <=> call.ssid = call.cfg.ssid)
        /\ call.cfg.ssid # call.ssid => ~call.result

MacLessWitness ==
    /\ call.fn = "matches"
    /\ call.cfg.ssid # ""
    /\ ~call.cfg.router_mac.some
    /\ call.ssid = call.cfg.ssid
    /\ ~call.router_mac.some
    /\ call.result

(***************************************************************************)
(* Properties of the auto-apply decision (checked under DecisionSpec)      *)
(***************************************************************************)
\* C11: when auto-switch is off or the current SSID is unknown, the
\* auto-apply decision does nothing: it invokes no Applier (so issues no
\* actuator call), starts no refresh, and leaves the last applied record,
\* the store, the snapshot and everything else as they were.
DecisionIdleWhenOffOrUnknown ==
    [][(~config.auto_switch \/ ~current_ssid.some) =>
          /\ applier_calls' = <<>>
          /\ workers' = workers /\ is_refreshing' = is_refreshing
          /\ last_applied_key' = last_applied_key
          /\ config' = config /\ layout' = layout
          /\ bg_state' = bg_state
          /\ UNCHANGED <<current_ssid, current_router_mac,
                         current_network_config, status_message,
                         selected_service_idx, network_services, panicked>>]_vars

\* The decision has run with auto-switch off on an identity for which the
\* store holds an auto-apply config that is not the last applied one.
DecisionIdleWitness ==
    /\ call.fn = "decide"
    /\ ~config.auto_switch
    /\ call.found.some
    /\ call.last_applied_key # Some(call.found.val.name)
    /\ applier_calls = <<>>
    /\ ~is_refreshing

\* C13 as stated: whenever the decision invokes the Applier for a match,
\* the last applied record is the name of that match when the decision
\* returns.
RecordedWheneverInvoked ==
    [][AutoCalls(applier_calls') # {} =>
          last_applied_key' = Some(applier_calls'[1].name)]_vars

\* C13 as amended: when the decision invokes the Applier for a match and
\* the Applier succeeds, the last applied record is the name of that match
\* when the decision returns; when the Applier fails, the record is left as
\* it was.
RecordedWhenApplied ==
    [][AutoCalls(applier_calls') # {} =>
          /\ Len(applier_calls') = 1
          /\ call'.found = Some(config.configs[applier_calls'[1].name])
          /\ last_applied_key # Some(applier_calls'[1].name)
          /\ applier_calls'[1].ok =>
                last_applied_key' = Some(applier_calls'[1].name)
          /\ ~applier_calls'[1].ok => last_applied_key' = last_applied_key]_vars

\* The decision applied a match that replaced another record.
RecordedWitness ==
    /\ call.fn = "decide"
    /\ Len(applier_calls) = 1
    /\ applier_calls[1].ok
    /\ call.last_applied_key.some
    /\ last_applied_key = Some(applier_calls[1].name)
    /\ last_applied_key # call.last_applied_key

(***************************************************************************)
(* Properties of the refresh cycle (checked under RefreshSpec, and under   *)
(* RefreshLiveSpec for what has to happen eventually)                      *)
(***************************************************************************)
\* The tick being taken consumes the snapshot.
Consumes == TickStep /\ is_refreshing /\ ~bg_state.is_loading

\* C16: the snapshot is replaced atomically.  Whenever the controller
\* consumes the snapshot, the SSID, the router MAC and the live settings it
\* copies are those one refresh thread probed, the last one that ran to its
\* end; it never copies a mixture of two cycles or a half-written one.
SnapshotConsumedWhole ==
    [][Consumes =>
          /\ call.fn = "refresh"
          /\ workers = <<>>
          /\ current_ssid' = call.ssid
          /\ current_router_mac' = call.router_mac
          /\ current_network_config' = call.config]_vars

\* The controller has consumed the result of a cycle that probed Ethernet
\* and found a network, after the cycle of the unlock that probed Wi-Fi.
ConsumedWholeWitness ==
    /\ call.fn = "refresh"
    /\ ~is_refreshing
    /\ current_ssid.some
    /\ current_ssid = call.ssid
    /\ current_router_mac = call.router_mac
    /\ current_network_config = Some(get_current_config("Ethernet"))
    /\ current_network_config = call.config

\* C17: no thread holds the lock while a probe call or an actuator call is
\* in progress on it.  A refresh thread that holds the lock has its probe
\* calls behind it: all it has left to do are assignments to the snapshot
\* and the drop of the guard.  The thread that draws the frames holds the
\* lock in no state, between two frames or inside apply_config, and held
\* it during none of the Applier invocations.  So whoever the controller's read
\* of the snapshot waits for is not waiting for a probe or an apply.
LockNotHeldAcrossCalls ==
    /\ mutex.some =>
          /\ mutex.val \in 1..Len(workers)
          /\ \A k \in workers[mutex.val].pc..Len(worker_body) :
                 worker_body[k].op \in {"write", "unlock"}
    /\ \A k \in DOMAIN applier_calls : ~applier_calls[k].locked

\* A refresh thread holds the lock, in the middle of its assignments, while
\* the frame thread is inside apply_config for the "apply" button.
LockHeldWitness ==
    /\ mutex = Some(1)
    /\ worker_body[workers[1].pc].op = "write"
    /\ frame.some
    /\ frame.val.at = "manual"

\* C18: every refresh cycle that was started and whose probe calls return
\* publishes and clears the loading flag, and a later tick consumes what it
\* published, so that the refreshing state is never stuck: a snapshot that
\* is loading is eventually not loading, and a published snapshot the app
\* still waits for is eventually consumed (the app is no longer refreshing,
\* or already started the next cycle).
RefreshNeverStuck ==
    /\ bg_state.is_loading ~> ~bg_state.is_loading
    /\ (is_refreshing /\ ~bg_state.is_loading)
          ~> (~is_refreshing \/ bg_state.is_loading)

\* A cycle whose probe found no network has published absent identity
\* fields, and the controller has consumed them.
UnknownPublishedWitness ==
    /\ bg_state.ssid = None /\ bg_state.router_mac = None
    /\ bg_state.config.some
    /\ ~bg_state.is_loading
    /\ ~is_refreshing
    /\ current_ssid = None
    /\ current_network_config = bg_state.config
    /\ ~panicked

(***************************************************************************)
(* Properties of the applier (checked under ApplySpec)                     *)
(***************************************************************************)
AddressingCommands == {"-setdhcp", "-setmanual"}

\* The positions, among the commands issued, of those named in names.
Issued(calls, names) == {i \in DOMAIN calls : calls[i][1] \in names}

\* C19: actuator ordering.  Every apply issues exactly one addressing
\* command, first: -setdhcp if use_dhcp, -setmanual otherwise, never both.
\* The DNS command is issued only after the addressing command succeeded,
\* never before it, and every apply whose addressing command succeeded
\* issues it, once, for the same service.
ActuatorOrdering ==
    call.fn = "apply" =>
        LET calls == call.result.calls
        IN  /\ Issued(calls, AddressingCommands) = {1}
            /\ calls[1][1] = IF call.cfg.use_dhcp THEN "-setdhcp"
                                                  ELSE "-setmanual"
            /\ Issued(calls, {"-setdnsservers"}) =
                  IF call.outcome = "addr_fails" THEN {} ELSE {2}
            /\ \A i \in DOMAIN calls : calls[i][2] = call.service

\* A static config was applied: -setmanual, then -setdnsservers.
OrderingWitness ==
    /\ call.fn = "apply"
    /\ ~call.cfg.use_dhcp
    /\ call.result.ok
    /\ Len(call.result.calls) = 2
    /\ call.result.calls[1][1] = "-setmanual"
    /\ call.result.calls[2][1] = "-setdnsservers"

\* C20: the first failure aborts the apply.  When the addressing command
\* fails, apply returns that failure and issues no DNS command; when the
\* addressing command succeeds and the DNS command fails, apply returns the
\* failure of the DNS command and issues nothing after it, so that the
\* addressing stays as set; otherwise apply returns success.
FirstFailureAborts ==
    call.fn = "apply" =>
        LET res == call.result
        IN  /\ call.outcome = "addr_fails" =>
                  /\ ~res.ok
                  /\ res.calls = <<addressing_args(call.service, call.cfg)>>
                  /\ res.err = Some(res.calls[1])
            /\ call.outcome = "dns_fails" =>
                  /\ ~res.ok
                  /\ res.calls = <<addressing_args(call.service, call.cfg),
                                   dns_args(call.service, call.cfg)>>
                  /\ res.err = Some(res.calls[2])
            /\ call.outcome = "ok" => (res.ok /\ res.err = None)

\* The DNS command failed after a static address was set.
PartialApplyWitness ==
    /\ call.fn = "apply"
    /\ call.outcome = "dns_fails"
    /\ ~call.cfg.use_dhcp
    /\ ~call.result.ok
    /\ Len(call.result.calls) = 2
    /\ call.result.err = Some(call.result.calls[2])

\* C21: after every successful apply, automatic or manual, also one made
\* while an earlier refresh is in flight, a probe cycle is started once the
\* actuator calls have completed, so that the next snapshot the controller
\* consumes was probed after the apply.  Step by step, and granting the
\* claim a thread started earlier that has yet to read the live settings: a
\* step in which an Applier invocation succeeded leaves a refresh thread
\* whose call of get_current_config is still to come.
FreshProbeAfterApply ==
    [][OkCalls(applier_calls') # {} =>
          \E i \in 1..Len(workers') :
             \E k \in workers'[i].pc..Len(worker_body) :
                worker_body[k].op = "get_current_config"]_vars

\* C22: for a config with use_dhcp off, the -setmanual command receives,
\* independently for each of ip_address, subnet_mask and router, the value
\* of the config when the field is present and the documented default when
\* it is absent; and a missing static field never makes apply fail: when
\* the commands succeed, apply succeeds.
StaticDefaultsPerField ==
    (call.fn = "apply" /\ ~call.cfg.use_dhcp) =>
        LET cmd == call.result.calls[1]
        IN  /\ Len(cmd) = 5
            /\ cmd[1] = "-setmanual"
            /\ cmd[2] = call.service
            /\ cmd[3] = IF call.cfg.ip_address.some
                        THEN call.cfg.ip_address.val ELSE "192.168.1.100"
            /\ cmd[4] = IF call.cfg.subnet_mask.some
                        THEN call.cfg.subnet_mask.val ELSE "255.255.255.0"
            /\ cmd[5] = IF call.cfg.router.some
                        THEN call.cfg.router.val ELSE "192.168.1.1"
            /\ call.outcome = "ok" => call.result.ok

\* A static config with an address but no mask and no router was applied.
StaticDefaultsWitness ==
    /\ call.fn = "apply"
    /\ ~call.cfg.use_dhcp
    /\ call.cfg.ip_address.some
    /\ ~call.cfg.subnet_mask.some
    /\ ~call.cfg.router.some
    /\ call.result.ok
    /\ call.result.calls[1][3] = call.cfg.ip_address.val
    /\ call.result.calls[1][4] = "255.255.255.0"

\* The arguments of the DNS command issued by the last apply, after the
\* service name.
DnsCarried ==
    LET cmd == call.result.calls[2] IN SubSeq(cmd, 3, Len(cmd))

AppliedWithDns ==
    /\ call.fn = "apply"
    /\ Len(call.result.calls) = 2
    /\ call.result.calls[2][1] = "-setdnsservers"

\* C23 as stated: the DNS command carries the clear-DNS sentinel if and
\* only if the dns_servers list of the config is empty; otherwise it carries
\* exactly the list, in order.
SentinelIffEmpty ==
    AppliedWithDns =>
        /\ (DnsCarried = <<"Empty">>) <=> (call.cfg.dns_servers = <<>>)
        /\ call.cfg.dns_servers # <<>> => DnsCarried = call.cfg.dns_servers

\* C23 as amended: the DNS command carries the clear-DNS sentinel when the
\* dns_servers list is empty, and otherwise exactly the list, in the same
\* order, nothing added, removed or reordered (so that a list whose only
\* entry is the text of the sentinel yields the command that clears DNS).
SentinelWhenEmpty ==
    AppliedWithDns =>
        /\ call.result.calls[2][2] = call.service
        /\ call.cfg.dns_servers = <<>> => DnsCarried = <<"Empty">>
        /\ call.cfg.dns_servers # <<>> => DnsCarried = call.cfg.dns_servers

\* A config with two DNS servers was applied and the command carries them
\* in the order of the config.
DnsVerbatimWitness ==
    /\ AppliedWithDns
    /\ Len(call.cfg.dns_servers) = 2
    /\ call.cfg.dns_servers[1] = "1.1.1.1"
    /\ DnsCarried = call.cfg.dns_servers

(***************************************************************************)
(* Properties of the store (checked under StoreSpec)                       *)
(***************************************************************************)
\* C26: add inserts or replaces by name.  After add(c) the store maps the
\* name of c to exactly c and the entry under every other name is as it
\* was; remove takes away the entry of its key and nothing else; and after
\* any sequence of the two from the empty store every entry is kept under
\* the name of its config and a traversal yields one config per name, the
\* empty name being a key like any other.
AddInsertsOrReplaces ==
    /\ \A k \in DOMAIN config.configs : config.configs[k].name = k
    /\ \A ord \in values_orders(layout) :
          LET vals == values(config.configs, ord)
          IN  \A i, j \in DOMAIN vals : vals[i].name = vals[j].name => i = j
    /\ call.fn = "add" =>
          /\ DOMAIN config.configs = DOMAIN call.before \cup {call.cfg.name}
          /\ config.configs[call.cfg.name] = call.cfg
          /\ \A k \in DOMAIN call.before \ {call.cfg.name} :
                 config.configs[k] = call.before[k]
    /\ call.fn = "remove" =>
          /\ DOMAIN config.configs = DOMAIN call.before \ {call.key}
          /\ \A k \in DOMAIN config.configs :
                 config.configs[k] = call.before[k]

\* add replaced the entry kept under the empty name by another config of
\* that name, beside an entry of another name.
AddReplacedWitness ==
    /\ call.fn = "add"
    /\ call.cfg.name = ""
    /\ "" \in DOMAIN call.before
    /\ call.before[""] # call.cfg
    /\ config.configs[""] = call.cfg
    /\ "A" \in DOMAIN config.configs

\* A published result waits to be consumed.
Pending == is_refreshing /\ ~bg_state.is_loading

\* The identity published by the cycle before the running one: that of the
\* last thread that ended, or the empty identity the program starts with.
PreviousIdentity ==
    IF call.fn = "refresh" THEN <<call.ssid, call.router_mac>> ELSE <<None, None>>

\* C31: no probe result is lost.  A refresh thread writes to the snapshot
\* only while no published result waits to be consumed; when it publishes
\* (clears the loading flag) it is the only thread, and the identity the
\* controller holds is the one published just before (the empty identity for
\* the first cycle), so that is what the new one is compared with; the
\* first tick after a publication copies it and ends the wait, and a tick
\* with nothing waiting, or a step that is not a tick, copies nothing.
NoResultLost ==
    [][/\ (\/ bg_state'.ssid # bg_state.ssid
            \/ bg_state'.router_mac # bg_state.router_mac
            \/ bg_state'.config # bg_state.config) =>
              (~Pending /\ is_refreshing /\ ~TickStep)
       /\ (bg_state.is_loading /\ ~bg_state'.is_loading) =>
              /\ Len(workers) = 1
              /\ is_refreshing
              /\ <<current_ssid, current_router_mac>> = PreviousIdentity
              /\ bg_state'.ssid = display_ssid(workers[1].identity)
              /\ bg_state'.router_mac = workers[1].identity.router_mac
              /\ Pending'
       /\ (TickStep /\ Pending) =>
              /\ current_ssid' = bg_state.ssid
              /\ current_router_mac' = bg_state.router_mac
              /\ current_network_config' = bg_state.config
              /\ ~Pending'
       /\ (~TickStep \/ ~Pending) =>
              /\ IdentityKept
              /\ current_network_config' = current_network_config]_vars

\* A second cycle has published an identity that differs from the one the
\* controller holds, which it took from the cycle before; no tick has
\* consumed the new one yet.
SecondResultPendingWitness ==
    /\ Pending
    /\ workers = <<>>
    /\ current_ssid.some
    /\ bg_state.ssid # current_ssid
    /\ call.fn = "refresh"

(***************************************************************************)
(* Editing after an apply: from the states of DecisionInit, where a config *)
(* may be recorded as the last applied one, the edit panel saves a config, *)
(* a config is deleted or the auto-switch checkbox is toggled, and later   *)
(* try_auto_apply runs.                                                    *)
(***************************************************************************)
\* CfgHomeMac after its addressing was edited.
CfgHomeMacEdited ==
    [CfgHomeMac EXCEPT !.use_dhcp = FALSE, !.ip_address = Some("10.0.0.9")]

EditUniverse == AppUniverse \cup {CfgHomeMacEdited}

\* One call of try_auto_apply in a frame after the one whose handler ran,
\* check_bg_state having taken the snapshot of the one refresh, so that no
\* frame is in progress and no refresh is in flight; call keeps what the
\* decision started from and the handler call it came after.
DecideLater(outcome) ==
    /\ call.fn \in {"click_save_edit", "click_delete", "toggle_auto_switch"}
    /\ ~frame.some
    /\ ~is_refreshing
    /\ workers = <<>>
    /\ can_lock(mutex)
    /\ \E ord \in values_orders(layout) :
          /\ \E app \in {try_auto_apply(Cur, ord, outcome)} : Commit(app)
          /\ call' = [fn |-> "decide_later",
                      last_applied_key |-> last_applied_key,
                      found |-> IF current_ssid.some
                                THEN find_auto_apply_config(
                                         config.configs, ord,
                                         current_ssid.val, current_router_mac)
                                ELSE None,
                      after |-> call]

EditNext ==
    \/ \E editing \in EditUniverse : PersistSaveEdit(editing)
    \/ \E key \in {"A", "B"} : PersistDelete(key)
    \/ PersistToggleAutoSwitch
    \/ \E outcome \in ActuatorOutcomes : DecideLater(outcome)
    \/ Elapse

\* The states of DecisionInit in which Wi-Fi is the selected service.
EditInit == DecisionInit /\ selected_service_idx = 0

EditSpec == EditInit /\ [][EditNext]_vars

(***************************************************************************)
(* Searches repeated while the program runs: between two searches of the   *)
(* store the user clicks what the window offers (the save button of the    *)
(* edit panel, a delete or an apply button, the auto-switch checkbox, an   *)
(* entry of the service combo box), time passes, and try_auto_apply runs.  *)
(***************************************************************************)
RepeatNext ==
    \/ \E editing \in AppUniverse : PersistSaveEdit(editing)
    \/ \E key \in {"A", "B"} : PersistDelete(key)
    \/ PersistToggleAutoSwitch
    \/ \E i \in 0..1 : PersistSelectService(i)
    \/ \E key \in {"A", "B"} : ClickApply(key)
    \/ \E outcome \in ActuatorOutcomes : ManualApplyReturns(outcome)
    \/ \E outcome \in ActuatorOutcomes : DecideLater(outcome)
    \/ Elapse

\* The states of EditInit in which the store holds both configs and the
\* network is one for which both qualify.
RepeatInit ==
    /\ EditInit
    /\ DOMAIN config.configs = {"A", "B"}
    /\ current_ssid = Some("Home")
    /\ current_router_mac = Some(Str("aa:bb"))

RepeatSpec == RepeatInit /\ [][RepeatNext]_vars

\* The step is the end of a frame whose handler called add_config or
\* remove_config.
StoreMutationStep ==
    /\ ~frame'.some
    /\ ~ClockActs
    /\ call'.fn \in {"click_save_edit", "click_delete"}

\* C10: determinism of matching.  Whatever the program does that is not a
\* mutation of the store (a frame with or without a click, an apply that
\* returns, a search by try_auto_apply, the passing of time), a search for
\* any (ssid, mac) returns after it what it returned before it; hence two
\* searches with the same (ssid, mac), with any number of such steps and no
\* mutation of the store in between, return the same config or both none,
\* also when several configs qualify.
FindRepeatable ==
    [][~StoreMutationStep =>
          \A ssid \in ProbedSsids, mac \in ProbedMacs :
             \A ord \in values_orders(layout), again \in values_orders(layout') :
                find_auto_apply_config(config'.configs, again, ssid, mac)
                   = find_auto_apply_config(config.configs, ord, ssid, mac)]_vars

\* try_auto_apply searched the store after the auto-switch checkbox was
\* clicked and found the config that was applied before, the one the record
\* names, and it would have found another one had the store been laid out
\* otherwise: several configs qualify.
RepeatedSearchWitness ==
    /\ call.fn = "decide_later"
    /\ call.after.fn = "toggle_auto_switch"
    /\ call.found.some
    /\ call.last_applied_key = Some(config_key(call.found.val))
    /\ \E other \in Perms(DOMAIN config.configs) :
          /\ current_ssid.some
          /\ find_auto_apply_config(config.configs, other,
                                    current_ssid.val, current_router_mac)
                # call.found

(***************************************************************************)
(* Properties of editing after an apply (EditSpec).                        *)
(***************************************************************************)
\* C33: store mutations and the auto-switch toggle leave the last applied
\* record as it was and do not run the auto-apply decision (nothing is
\* applied and the record is not cleared), also when the config saved or
\* removed is the one the record names; and a later decision that finds a
\* config of the recorded name does not apply it, whatever its settings now
\* are.
MutationsKeepLastApplied ==
    [][/\ call'.fn \in {"click_save_edit", "click_delete", "toggle_auto_switch"} =>
              /\ last_applied_key' = last_applied_key
              /\ applier_calls' = <<>>
       /\ (/\ call'.fn = "decide_later"
           /\ config.auto_switch
           /\ call'.found.some
           /\ last_applied_key = Some(call'.found.val.name)) =>
              /\ last_applied_key' = last_applied_key
              /\ applier_calls' = <<>>]_vars

\* The config named by the last applied record was saved with other
\* settings; the decision that ran afterwards found the edited config and
\* did not apply it.
EditedConfigSkippedWitness ==
    /\ call.fn = "decide_later"
    /\ call.after.fn = "click_save_edit"
    /\ call.after.input.editing.name \in DOMAIN call.after.before.configs
    /\ call.after.before.configs[call.after.input.editing.name] # call.after.input.editing
    /\ call.last_applied_key = Some(call.after.input.editing.name)
    /\ config.auto_switch
    /\ call.found = Some(call.after.input.editing)
    /\ last_applied_key = call.last_applied_key
    /\ applier_calls = <<>>

(***************************************************************************)
(* Properties of a failed apply (OutcomeSpec).                             *)
(***************************************************************************)
\* The step invoked the Applier and the invocation failed.
FailedApplyStep ==
    /\ applier_calls' # <<>>
    /\ \A k \in DOMAIN applier_calls' : ~applier_calls'[k].ok

\* C32: a failed apply, automatic or manual, changes only the status
\* message: the last applied record, the store, the observed identity and
\* live settings, and the snapshot are as before, and no refresh is started.
FailedApplyOnlyStatus ==
    [][FailedApplyStep =>
          /\ status_message' = <<"apply failed">>
          /\ UNCHANGED <<last_applied_key, config, layout, current_ssid,
                         current_router_mac, current_network_config,
                         bg_state, is_refreshing, workers, mutex,
                         network_services, selected_service_idx, check_due,
                         is_authenticated, password_error, panicked>>]_vars

\* The "apply" button of a config failed at the DNS command while another
\* config was the last applied one: the record still names the other
\* config and no refresh is running.
FailedManualApplyWitness ==
    /\ call.fn = "click_apply"
    /\ applier_calls # <<>>
    /\ ~applier_calls[1].ok
    /\ applier_calls[1].by = "manual"
    /\ status_message = <<"apply failed">>
    /\ last_applied_key.some
    /\ last_applied_key.val # applier_calls[1].name
    /\ ~is_refreshing

(***************************************************************************)
(* The two passes of find_auto_apply_config (MatchSpec).                   *)
(***************************************************************************)
\* The keys that qualify in the first loop, for the last call of find.
PassOneCandidates ==
    {k \in DOMAIN config.configs :
        /\ config.configs[k].auto_apply
        /\ matches_network(config.configs[k], call.ssid, call.router_mac)}

\* The keys that qualify in the second loop, for the last call of find.
PassTwoCandidates ==
    {k \in DOMAIN config.configs :
        /\ config.configs[k].auto_apply
        /\ config.configs[k].ssid = call.ssid
        /\ ~config.configs[k].router_mac.some}

\* The single search: the first auto-apply config, in traversal order, that
\* matches the probed network, else none.
SinglePass ==
    LET hits == {i \in 1..Len(layout) : layout[i] \in PassOneCandidates}
    IN  IF hits = {} THEN None ELSE Some(config.configs[layout[MinOf(hits)]])

\* C30: pass 2 of find_auto_apply_config never selects a config: every
\* config that qualifies in pass 2 qualifies in pass 1, so whenever pass 1
\* finds nothing pass 2 finds nothing, and the result of the two-pass search
\* is that of the single search for an auto-apply config that matches.
PassTwoNeverSelects ==
    call.fn = "find" =>
       /\ PassTwoCandidates \subseteq PassOneCandidates
       /\ (PassOneCandidates = {} => call.result = None)
       /\ call.result = SinglePass

\* A config qualifies for pass 2, and the search returned another config,
\* found by pass 1.
PassTwoShadowedWitness ==
    /\ call.fn = "find"
    /\ PassTwoCandidates # {}
    /\ call.result.some
    /\ call.result.val.name \notin PassTwoCandidates

(***************************************************************************)
(* Properties of persistence (PersistSpec).                                *)
(***************************************************************************)
MutationCalls ==
    {"select_service", "toggle_auto_switch", "click_delete", "click_save_edit"}

\* The name of the config whose delete button was clicked: what the delete
\* handler removes is the entry stored under that name.
DeletedName == config_key(call.before.configs[call.input.key])

\* The mutation the last handler made is in the in-memory document.
MutationKept ==
    CASE call.fn = "select_service" ->
            /\ config.network_service = network_services[call.input.i + 1]
            /\ selected_service_idx = call.input.i
      [] call.fn = "toggle_auto_switch" ->
            config.auto_switch = ~call.before.auto_switch
      [] call.fn = "click_delete" ->
            /\ DeletedName \notin DOMAIN config.configs
            /\ DOMAIN config.configs = DOMAIN call.before.configs \ {DeletedName}
            /\ \A k \in DOMAIN config.configs :
                  config.configs[k] = call.before.configs[k]
      [] call.fn = "click_save_edit" ->
            /\ call.input.editing.name \in DOMAIN config.configs
            /\ config.configs[call.input.editing.name] = call.input.editing

SaveFailed ==
    /\ call.fn \in MutationCalls
    /\ \E k \in 1..Len(call.saves) : ~call.saves[k].result.ok

\* The frame of the last click died before the handler of the click: the
\* list has a row whose display_name panics, at or before the clicked row or
\* before the edit panel, and the frame changed nothing in the document and
\* attempted no save.
DiedBeforeHandler ==
    /\ call.fn \in {"click_delete", "click_save_edit"}
    /\ panicked
    /\ \E k \in DOMAIN call.before.configs :
          display_name_panics(call.before.configs[k])
    /\ config = call.before
    /\ call.saves = <<>>

\* C27: every store mutation (add/update, remove, toggle auto-switch, select
\* service) is followed by exactly one save attempt, made on the mutated
\* document, and whatever the outcome of that save the in-memory document
\* contains the mutation, also when the frame panics after the handler; a
\* click whose frame dies before its handler mutates nothing.
SaveFollowsMutation ==
    (call.fn \in MutationCalls /\ ~DiedBeforeHandler) =>
       /\ Len(call.saves) = 1
       /\ call.saves[1].document = config
       /\ MutationKept

\* A delete button was clicked, the save failed, and the entry stored under
\* the name of the clicked config is gone from memory.
DeleteKeptDespiteFailedSave ==
    /\ call.fn = "click_delete"
    /\ SaveFailed
    /\ DeletedName \in DOMAIN call.before.configs
    /\ DeletedName \notin DOMAIN config.configs

\* C28: when the save that follows a store mutation fails, the status
\* message after the mutation reports the persistence error.
SaveFailureSurfaced ==
    SaveFailed =>
       \E k \in 1..Len(call.saves) :
          /\ ~call.saves[k].result.ok
          /\ status_message = <<"save failed", call.saves[k].result.err>>

====
